---- MODULE Spec2Model ----
(***************************************************************************)
(* Verification model of the wicked64 dynamic binary translator:           *)
(*   - the register allocator        (jit/register.rs)                     *)
(*   - the per-block translator      (jit/compiler.rs, compiler/instructions.rs) *)
(*   - the cache, jump table, bridge and dispatch loop                     *)
(*                                   (jit/cache.rs, jit/jump_table.rs,     *)
(*                                    jit/bridge.rs, jit/mod.rs, n64.rs)   *)
(* The specifications share the variables below: SpecAlloc drives the      *)
(* allocator alone, SpecCompile translates a block and runs the emitted    *)
(* code, SpecDispatch runs the dispatch loop of N64::cycle; the others run *)
(* one unit each, and every specification pins the variables it leaves out.*)
(***************************************************************************)
EXTENDS Integers, Sequences, FiniteSets, TLC

VARIABLES
    \* ---- Registers (jit/register.rs) ----
    regs,            \* guest slot -> [register, borrow_index]
    free_regs,       \* set of unbound host registers
    borrow_index,    \* next borrow index
    last,            \* what the last allocator call was and what it returned
    \* ---- Compiler (jit/compiler.rs) ----
    cycles,          \* the budget Compiler::compile was called with
    cpc,             \* Compiler.pc, as a byte offset from the block start
    saved_regs,      \* Compiler.saved_regs
    emitter,         \* the host instructions emitted so far
    status,          \* "Continue" | "InvalidateCache" | "Branch" | "Budget" (translation state)
    lowered,         \* the guest instructions lowered so far
    gpr,             \* state.cpu.gpr after the emitted block ran ("none" before)
    host,            \* the host machine running a wrap_call sequence: registers, stack, position
    \* ---- dispatch loop (n64.rs, jit/mod.rs) ----
    mem,             \* guest RDRAM: word index -> instruction
    pc,              \* state.cpu.pc (virtual address)
    cache_invalidation,
    interruption,
    resume_addr,     \* the resume point, named by the block that holds it
    cache,           \* Cache.blocks: physical start -> block
    jump_table,      \* JumpTable.table: physical address -> entry
    blocks,          \* every executable buffer built so far; a block's pointer is its index
    phase,           \* "engine": at the top of the loop of N64::cycle; "run": entering emitted code
    hist,            \* observations of the current dispatch iteration
    \* ---- units run on their own ----
    jump,            \* one J or JAL: Compiler.pc, the target field, the PrepareJump value
    asm,             \* the instruction handed to emit!
    buffer,          \* Emitter.buffer (w64_codegen)
    borrow,          \* ArenaCell.borrow (wicked64-arena)
    guards           \* the ArenaRef and ArenaRefMut values alive, by the variable holding them

allocVars == <<regs, free_regs, borrow_index, last>>
compVars == <<cycles, cpc, saved_regs, emitter, status, lowered, gpr, host>>
dispVars == <<mem, pc, cache_invalidation, interruption, resume_addr, cache,
              jump_table, blocks, phase, hist>>
emitVars == <<asm, buffer>>
cellVars == <<borrow, guards>>
unitVars == <<jump, asm, buffer, borrow, guards>>
vars == <<regs, free_regs, borrow_index, last, cycles, cpc, saved_regs, emitter, status,
          lowered, gpr, host, mem, pc, cache_invalidation, interruption, resume_addr,
          cache, jump_table, blocks, phase, hist, jump, asm, buffer, borrow, guards>>

(***************************************************************************)
(* Bounds of the model.                                                    *)
(***************************************************************************)
\* number of entries of REGISTER_SET (taken from its tail) handed to with_registers
\* next to the reserved ones
NumHostRegs == 5
\* guest CPU registers the allocator is asked about: gpr 1 .. MaxGuestRegs
MaxGuestRegs == 2
\* cap of the borrow counter in the allocator-only specification
MaxBorrow == 4
\* the budget handed to Compiler::compile, in guest instructions
MaxBlockInsts == 4
\* guest registers a translated block writes with LUI: gpr 1 .. MaxLuiRegs
MaxLuiRegs == 4
\* guest registers the other instructions of a translated block name: gpr 1 .. MaxOperandRegs
MaxOperandRegs == 2

(***************************************************************************)
(* Host registers, numbered as x86-64 encodes them.                        *)
(***************************************************************************)
rax == 0
rcx == 1
rdx == 2
rbx == 3
rsp == 4
rbp == 5
rsi == 6
rdi == 7
r8 == 8
r9 == 9
r10 == 10
r11 == 11
r12 == 12
r13 == 13
r14 == 14
r15 == 15

REGISTER_SET == <<rax, rcx, rdx, rbx, rsp, rbp, rsi, rdi, r8, r9, r10, r11, r12, r13, r14, r15>>

CALLEE_SAVED_REGISTERS == {rbx, rsi, rbp, r12, r13, r14, r15}

SCRATCHY_REGISTERS == <<r14, r15>>

\* GuestRegister::Cpu(i) is i, GuestRegister::Pc is GuestPc
GuestPc == 32
CpuSlots == 1..MaxGuestRegs
GuestSlots == CpuSlots \cup {GuestPc}

\* Option values are sets: None is {}, Some(x) is {x}
None == {}
Some(x) == {x}

\* the slice of REGISTER_SET the model hands to Registers::with_registers:
\* the run rbx, rsp, rbp, rsi of the set and its last NumHostRegs entries
RegisterSlice ==
    {REGISTER_SET[i] : i \in 4..7} \cup {REGISTER_SET[i] : i \in (17 - NumHostRegs)..16}

(***************************************************************************)
(* Registers (jit/register.rs).  An allocator value is a record            *)
(* [regs, free_regs, borrow_index]; every method is an operator giving the *)
(* set of results [alloc, reg, dropped] the call can produce (HashSet and  *)
(* HashMap iteration order is unspecified, so `iter().next()` and `find`   *)
(* may yield any element).                                                 *)
(***************************************************************************)
\* a filter that keeps only the stack pointer out of the free set
is_reserved_rsp(register) == register = rsp

is_reserved(register) == register \in {rsi, rsp, rbp, rbx}

with_registers(slice) ==
    [regs |-> <<>>,
     free_regs |-> {r \in slice : ~is_reserved(r)},
     borrow_index |-> 0]

Remove(f, k) == [x \in (DOMAIN f) \ {k} |-> f[x]]

\* a victim choice that takes the guests holding the maximum borrow index
MaxBorrowed(m) ==
    {g \in DOMAIN m : \A h \in DOMAIN m : m[g].borrow_index >= m[h].borrow_index}

\* the guests holding the minimum borrow index (select_nth_unstable_by_key(0, ..))
MinBorrow(m) ==
    {g \in DOMAIN m : \A h \in DOMAIN m : m[g].borrow_index <= m[h].borrow_index}

\* lines 133-143: remove from the free set, insert the binding, bump the counter
InsertBinding(A, guest, host_register, dropped_guest) ==
    [alloc |-> [regs |-> (guest :> [register |-> host_register,
                                     borrow_index |-> A.borrow_index]) @@ A.regs,
                free_regs |-> A.free_regs \ {host_register},
                borrow_index |-> A.borrow_index + 1],
     reg |-> Some(host_register),
     dropped |-> dropped_guest]

\* an insert that takes the first free register in REGISTER_SET order
\* only when the map is empty, and evicts otherwise
Registers_insert_evicting(A, guest) ==
    IF guest \in DOMAIN A.regs
    THEN {[alloc |-> A, reg |-> None, dropped |-> None]}
    ELSE IF A.free_regs # {} /\ DOMAIN A.regs = {}
    THEN {InsertBinding(A, guest, next, None) : next \in A.free_regs}
    ELSE {InsertBinding([A EXCEPT !.free_regs = @ \cup {A.regs[guest_reg].register}],
                        guest, A.regs[guest_reg].register, Some(guest_reg))
            : guest_reg \in MinBorrow(A.regs)}

Registers_insert(A, guest) ==
    IF guest \in DOMAIN A.regs
    THEN {[alloc |-> A, reg |-> None, dropped |-> None]}   \* Err(AlreadyReserved)
    ELSE IF A.free_regs # {}
    THEN {InsertBinding(A, guest, next, None) : next \in A.free_regs}
    ELSE {InsertBinding([A EXCEPT !.free_regs = @ \cup {A.regs[guest_reg].register}],
                        guest, A.regs[guest_reg].register, Some(guest_reg))
            : guest_reg \in MinBorrow(A.regs)}

Registers_get(A, guest_reg) ==
    IF guest_reg \in DOMAIN A.regs
    THEN [alloc |-> [A EXCEPT !.regs[guest_reg].borrow_index = A.borrow_index,
                              !.borrow_index = @ + 1],
          reg |-> Some(A.regs[guest_reg].register)]
    ELSE [alloc |-> A, reg |-> None]

find_by_host(A, host_reg) == {g \in DOMAIN A.regs : A.regs[g].register = host_reg}

\* a free that resets the borrow counter on every call
Registers_free_resetting(A, guest_reg) ==
    LET bound == guest_reg \in DOMAIN A.regs
        A1 == IF bound
              THEN [A EXCEPT !.regs = Remove(A.regs, guest_reg),
                             !.free_regs = @ \cup {A.regs[guest_reg].register}]
              ELSE A
    IN [alloc |-> [A1 EXCEPT !.borrow_index = 0],
        reg |-> IF bound THEN Some(A.regs[guest_reg].register) ELSE None,
        dropped |-> IF bound THEN Some(guest_reg) ELSE None]

Registers_free(A, guest_reg) ==
    LET bound == guest_reg \in DOMAIN A.regs
        A1 == IF bound
              THEN [A EXCEPT !.regs = Remove(A.regs, guest_reg),
                             !.free_regs = @ \cup {A.regs[guest_reg].register}]
              ELSE A
    IN [alloc |-> IF DOMAIN A1.regs = {} THEN [A1 EXCEPT !.borrow_index = 0] ELSE A1,
        reg |-> IF bound THEN Some(A.regs[guest_reg].register) ELSE None,
        dropped |-> IF bound THEN Some(guest_reg) ELSE None]

exclude_register(A, host_reg) ==
    IF host_reg \notin A.free_regs /\ find_by_host(A, host_reg) # {}
    THEN {Registers_free(A, guest_reg) : guest_reg \in find_by_host(A, host_reg)}
    ELSE {[alloc |-> [A EXCEPT !.free_regs = @ \ {host_reg}],
           reg |-> None, dropped |-> None]}

(***************************************************************************)
(* SpecAlloc: the allocator alone, its four methods called in any order.   *)
(***************************************************************************)
Alloc == [regs |-> regs, free_regs |-> free_regs, borrow_index |-> borrow_index]

SetAlloc(A) ==
    /\ regs' = A.regs
    /\ free_regs' = A.free_regs
    /\ borrow_index' = A.borrow_index

JumpIdle == jump = <<>>
EmitterIdle == asm = <<>> /\ buffer = <<>>
CellIdle == borrow = 0 /\ guards = <<>>
UnitIdle == JumpIdle /\ EmitterIdle /\ CellIdle

CompIdle ==
    /\ cycles = 0 /\ cpc = 0 /\ saved_regs = <<>> /\ emitter = <<>> /\ status = "Continue"
    /\ lowered = <<>> /\ gpr = <<>> /\ host = <<>>

DispIdle ==
    /\ mem = <<>> /\ pc = 0 /\ cache_invalidation = None /\ interruption = None
    /\ resume_addr = 0 /\ cache = <<>> /\ jump_table = <<>> /\ blocks = <<>>
    /\ phase = "idle" /\ hist = <<>>

InitAlloc ==
    /\ UnitIdle
    /\ regs = with_registers(RegisterSlice).regs
    /\ free_regs = with_registers(RegisterSlice).free_regs
    /\ borrow_index = with_registers(RegisterSlice).borrow_index
    /\ last = [op |-> "new", guest |-> None, reg |-> None, dropped |-> None]
    /\ CompIdle
    /\ DispIdle

Insert(guest) ==
    /\ borrow_index < MaxBorrow
    /\ guest \notin DOMAIN regs
    /\ \E res \in Registers_insert(Alloc, guest) :
          /\ SetAlloc(res.alloc)
          /\ last' = [op |-> "insert", guest |-> Some(guest), reg |-> res.reg,
                       dropped |-> res.dropped,
                       \* the register the preceding call released, if that call was free
                       after_free |-> IF last.op = "free" THEN last.reg ELSE None,
                       \* the free set this insert found
                       free_before |-> free_regs]
    /\ UNCHANGED <<unitVars, compVars, dispVars>>

InsertReserved(guest) ==
    /\ guest \in DOMAIN regs
    /\ \E res \in Registers_insert(Alloc, guest) :
          /\ SetAlloc(res.alloc)
          /\ last' = [op |-> "insert_err", guest |-> Some(guest), reg |-> res.reg,
                       dropped |-> res.dropped]
    /\ UNCHANGED <<unitVars, compVars, dispVars>>

Get(guest) ==
    /\ borrow_index < MaxBorrow
    /\ LET res == Registers_get(Alloc, guest)
       IN /\ SetAlloc(res.alloc)
          /\ last' = [op |-> "get", guest |-> Some(guest), reg |-> res.reg,
                       dropped |-> None]
    /\ UNCHANGED <<unitVars, compVars, dispVars>>

Free(guest) ==
    /\ LET res == Registers_free(Alloc, guest)
       IN /\ SetAlloc(res.alloc)
          /\ last' = [op |-> "free", guest |-> Some(guest), reg |-> res.reg,
                       dropped |-> res.dropped]
    /\ UNCHANGED <<unitVars, compVars, dispVars>>

Exclude(host_reg) ==
    /\ \E res \in exclude_register(Alloc, host_reg) :
          /\ SetAlloc(res.alloc)
          /\ last' = [op |-> "exclude", guest |-> None, reg |-> Some(host_reg),
                       dropped |-> res.dropped]
    /\ UNCHANGED <<unitVars, compVars, dispVars>>

NextAlloc ==
    \/ \E guest \in GuestSlots : Insert(guest)
    \/ \E guest \in GuestSlots : InsertReserved(guest)
    \/ \E guest \in GuestSlots : Get(guest)
    \/ \E guest \in GuestSlots : Free(guest)
    \/ \E host_reg \in RegisterSlice : Exclude(host_reg)

SpecAlloc == InitAlloc /\ [][NextAlloc]_vars

(***************************************************************************)
(* Compiler (jit/compiler.rs, jit/compiler/instructions.rs).  A compiler   *)
(* value is a record [alloc, saved_regs, emitter]; emitter is the sequence *)
(* of host instructions emitted so far.  Methods that allocate give the    *)
(* set of compiler values (and registers) the call can produce.            *)
(* The stores sync_all_registers emits go to pairwise distinct slots of    *)
(* the state struct, in HashMap iteration order; they are kept as one      *)
(* "sync" instruction holding the set of (slot, register) pairs.           *)
(***************************************************************************)
ARGS_REGS == <<rdi, rsi, rdx, rcx, r8, r9>>

Range(q) == {q[i] : i \in DOMAIN q}

TheOne(opt) == CHOOSE x \in opt : TRUE

Emit(K, insts) == [K EXCEPT !.emitter = @ \o insts]

\* Compiler::new: Registers::new() with r14, r15 and r13 excluded
Compiler_new(slice) ==
    LET R0 == with_registers(slice)
        R1 == TheOne(exclude_register(R0, SCRATCHY_REGISTERS[1])).alloc
        R2 == TheOne(exclude_register(R1, SCRATCHY_REGISTERS[2])).alloc
        R3 == TheOne(exclude_register(R2, r13)).alloc
    IN [alloc |-> R3, saved_regs |-> <<>>, emitter |-> <<>>]

save_register(K, reg) ==
    Emit([K EXCEPT !.saved_regs = Append(@, reg)], <<[op |-> "push", reg |-> reg]>>)

RECURSIVE PopAll(_, _)
PopAll(saved, n) ==
    IF n = 0 THEN <<>>
    ELSE <<[op |-> "pop", reg |-> saved[n]]>> \o PopAll(saved, n - 1)

\* mutant: the saved registers are forgotten without being popped
restore_registers_nopop(K) == [K EXCEPT !.saved_regs = <<>>]

restore_registers(K) ==
    Emit([K EXCEPT !.saved_regs = <<>>], PopAll(K.saved_regs, Len(K.saved_regs)))

sync_guest_with(K, guest_reg, host_reg) ==
    Emit([K EXCEPT !.alloc = Registers_free(K.alloc, guest_reg).alloc],
         <<[op |-> "store", slot |-> guest_reg, reg |-> host_reg]>>)

RECURSIVE FreeAll(_, _)
FreeAll(A, guests) ==
    IF guests = {} THEN A
    ELSE LET g == CHOOSE x \in guests : TRUE
         IN FreeAll(Registers_free(A, g).alloc, guests \ {g})

sync_all_registers(K) ==
    LET pairs == {<<g, K.alloc.regs[g].register>> : g \in DOMAIN K.alloc.regs}
    IN IF pairs = {} THEN K
       ELSE Emit([K EXCEPT !.alloc = FreeAll(K.alloc, DOMAIN K.alloc.regs)],
                 <<[op |-> "sync", pairs |-> pairs]>>)

get_host_register(K, guest_reg) ==
    LET got == Registers_get(K.alloc, guest_reg)
    IN IF got.reg # None
       THEN {[k |-> [K EXCEPT !.alloc = got.alloc], reg |-> TheOne(got.reg)]}
       ELSE {LET reg == TheOne(ins.reg)
                 K1 == [K EXCEPT !.alloc = ins.alloc]
                 K2 == IF reg \in CALLEE_SAVED_REGISTERS /\ reg \notin Range(K1.saved_regs)
                       THEN save_register(K1, reg) ELSE K1
                 K3 == IF ins.dropped # None
                       THEN sync_guest_with(K2, TheOne(ins.dropped), reg) ELSE K2
                 K4 == Emit(K3, <<[op |-> "load", reg |-> reg, slot |-> guest_reg]>>)
             IN [k |-> K4, reg |-> reg]
               : ins \in Registers_insert(K.alloc, guest_reg)}

get_cpu_register(K, register) == get_host_register(K, register)

(***************************************************************************)
(* wrap_call (instructions.rs 528-614) with the call_fn the wrap_call!     *)
(* macro passes (45-65).  args is a sequence of [kind |-> "reg", reg |-> r]*)
(* and [kind |-> "val", val |-> v].                                        *)
(***************************************************************************)
RegArgIdx(args) == {i \in DOMAIN args : args[i].kind = "reg"}
reg_args(args) == {args[i].reg : i \in RegArgIdx(args)}

\* a save_reg! that never spills
save_reg_never(S, reg, args) == S

\* the save_reg! macro; S is [save_registers, stack_index, out]
save_reg(S, reg, args) ==
    IF reg \notin DOMAIN S.save_registers /\ reg \in reg_args(args)
    THEN [save_registers |-> (reg :> (S.stack_index - 8)) @@ S.save_registers,
          stack_index |-> S.stack_index - 8,
          out |-> Append(S.out, [op |-> "store_stack", index |-> S.stack_index - 8,
                                 reg |-> reg])]
    ELSE S

RECURSIVE MoveArgs(_, _, _)
MoveArgs(S, args, i) ==
    IF i > Len(args) \/ i > Len(ARGS_REGS) THEN S
    ELSE LET dst == ARGS_REGS[i]
             src == args[i]
             S1 == IF src.kind = "reg" \/ RegArgIdx(args) # {}
                   THEN save_reg(S, dst, args) ELSE S
             mv == IF src.kind = "reg"
                   THEN IF src.reg \in DOMAIN S1.save_registers
                        THEN [op |-> "load_stack", reg |-> dst,
                              index |-> S1.save_registers[src.reg]]
                        ELSE [op |-> "mov", reg |-> dst, src |-> src.reg]
                   ELSE [op |-> "movi", reg |-> dst, imm |-> src.val]
         IN MoveArgs([S1 EXCEPT !.out = Append(@, mv)], args, i + 1)

\* a call_fn that does not align the stack
call_fn_unaligned(function) ==
    <<[op |-> "movi", reg |-> rax, imm |-> function],
      [op |-> "push", reg |-> rbx],
      [op |-> "mov_bl_spl"],
      [op |-> "call", function |-> function],
      [op |-> "mov_spl_bl"],
      [op |-> "pop", reg |-> rbx]>>

\* the closure the wrap_call! macro hands to wrap_call
call_fn(function) ==
    <<[op |-> "movi", reg |-> rax, imm |-> function],
      [op |-> "push", reg |-> rbx],
      [op |-> "mov_bl_spl"],
      [op |-> "and_rsp"],
      [op |-> "call", function |-> function],
      [op |-> "mov_spl_bl"],
      [op |-> "pop", reg |-> rbx]>>

wrap_call(K, function, args) ==
    LET K1 == sync_all_registers(Emit(K, <<[op |-> "push", reg |-> rsi]>>))
        stack_size == Cardinality(RegArgIdx(args)) * 8
        S == MoveArgs([save_registers |-> <<>>, stack_index |-> stack_size, out |-> <<>>],
                      args, 1)
        sub == IF stack_size > 0 THEN <<[op |-> "sub_rsp", imm |-> stack_size]>> ELSE <<>>
        add == IF stack_size > 0 THEN <<[op |-> "add_rsp", imm |-> stack_size]>> ELSE <<>>
    IN Emit(K1, sub \o S.out \o add \o call_fn(function) \o <<[op |-> "pop", reg |-> rsi]>>)

\* an emit_interruption whose displacement stops at the jmp r13 itself
emit_interruption_at_jmp(K, data_reg) ==
    LET K1 == restore_registers(sync_all_registers(K))
    IN Emit(K1, <<[op |-> "push", reg |-> r14],
                  [op |-> "push", reg |-> r15],
                  [op |-> "set_interruption", kind |-> "PrepareJump", reg |-> data_reg],
                  [op |-> "movi", reg |-> rdi, imm |-> 7],
                  [op |-> "movi", reg |-> rax, imm |-> "get_rip_value"],
                  [op |-> "call", function |-> "get_rip_value"],
                  [op |-> "set_resume_addr", reg |-> rax],
                  [op |-> "pop", reg |-> r15],
                  [op |-> "pop", reg |-> r14],
                  [op |-> "jmp_r13", bound |-> DOMAIN K1.alloc.regs,
                   saved |-> K1.saved_regs]>>)

\* emit_interruption(Interruption::PrepareJump(0), Some(data_reg))
emit_interruption(K, data_reg) ==
    LET K1 == restore_registers(sync_all_registers(K))
    IN Emit(K1, <<[op |-> "push", reg |-> r14],
                  [op |-> "push", reg |-> r15],
                  [op |-> "set_interruption", kind |-> "PrepareJump", reg |-> data_reg],
                  [op |-> "movi", reg |-> rdi, imm |-> 10],
                  [op |-> "movi", reg |-> rax, imm |-> "get_rip_value"],
                  [op |-> "call", function |-> "get_rip_value"],
                  [op |-> "set_resume_addr", reg |-> rax],
                  [op |-> "pop", reg |-> r15],
                  [op |-> "pop", reg |-> r14],
                  [op |-> "jmp_r13", bound |-> DOMAIN K1.alloc.regs,
                   saved |-> K1.saved_regs]>>)

(***************************************************************************)
(* Instruction lowerings (instructions.rs).  Each gives the set of         *)
(* [k, status] results; pc is Compiler.pc at the call, which compile_block *)
(* has already advanced past the instruction being lowered.                *)
(***************************************************************************)
emit_lui(K, inst) ==
    {[k |-> Emit(rt.k, <<[op |-> "movi", reg |-> rt.reg, imm |-> inst.imm * 65536]>>),
      status |-> "Continue"]
        : rt \in get_cpu_register(K, inst.rt)}

\* emit_ori (instructions.rs): the value is built in r14 and then moved to rt
emit_ori(K, inst) ==
    UNION {{[k |-> Emit(rs.k, <<[op |-> "movi", reg |-> r14, imm |-> inst.imm],
                                [op |-> "or", reg |-> r14, src |-> rs.reg],
                                [op |-> "mov", reg |-> rt.reg, src |-> r14]>>),
             status |-> "Continue"]
              : rs \in get_cpu_register(rt.k, inst.rs)}
           : rt \in get_cpu_register(K, inst.rt)}

\* the ORI arm of compile_instruction (compiler.rs): the immediate is moved to rt first
compile_ori(K, inst) ==
    UNION {{[k |-> Emit(rs.k, <<[op |-> "movi", reg |-> rt.reg, imm |-> inst.imm],
                                [op |-> "or", reg |-> rt.reg, src |-> rs.reg]>>),
             status |-> "Continue"]
              : rs \in get_cpu_register(rt.k, inst.rs)}
           : rt \in get_cpu_register(K, inst.rt)}

emit_sw(K, inst) ==
    UNION {{[k |-> wrap_call(Emit(rt.k, <<[op |-> "movi", reg |-> r14, imm |-> inst.imm],
                                          [op |-> "add", reg |-> r14, src |-> rs.reg]>>),
                             "mmu_store_dword",
                             <<[kind |-> "val", val |-> "state"],
                               [kind |-> "reg", reg |-> r14],
                               [kind |-> "reg", reg |-> rt.reg]>>),
             status |-> "InvalidateCache"]
              : rt \in get_cpu_register(rs.k, inst.rt)}
           : rs \in get_cpu_register(K, inst.rs)}

JumpArgs == <<[kind |-> "val", val |-> "state"],
              [kind |-> "val", val |-> "jump_table"],
              [kind |-> "reg", reg |-> r15]>>

\* the tail shared by the branch lowerings: query the jump table, suspend, jump on resume
BranchTail(K) ==
    Emit(emit_interruption(wrap_call(K, "get_host_jump_addr", JumpArgs), r15),
         <<[op |-> "jmp_r15"]>>)

emit_j(K, inst, self_pc) ==
    {[k |-> BranchTail(Emit(K, <<[op |-> "movi", reg |-> r15, imm |-> <<"pc_hi", self_pc>>],
                                 [op |-> "or_imm32", reg |-> r15, imm |-> inst.target * 4]>>)),
      status |-> "Branch"]}

emit_jal(K, inst, self_pc) ==
    {[k |-> BranchTail(Emit(r31.k,
                <<[op |-> "movi", reg |-> r31.reg, imm |-> self_pc + 8],
                  [op |-> "movi", reg |-> r15, imm |-> <<"pc_hi", self_pc>>],
                  [op |-> "or_imm32", reg |-> r15, imm |-> inst.target * 4]>>)),
      status |-> "Branch"]
        : r31 \in get_cpu_register(K, 31)}

emit_jr(K, inst) ==
    {[k |-> BranchTail(Emit(rs.k, <<[op |-> "mov", reg |-> r15, src |-> rs.reg]>>)),
      status |-> "Branch"]
        : rs \in get_cpu_register(K, inst.rs)}

emit_bne(K, inst, self_pc) ==
    UNION {{LET K1 == restore_registers(sync_all_registers(rt.k))
                K2 == Emit(K1, <<[op |-> "cmp", reg |-> rs.reg, src |-> rt.reg],
                                 [op |-> "je", label |-> "skip"],
                                 [op |-> "movi", reg |-> r15,
                                  imm |-> <<"pc_plus", self_pc, inst.imm>>]>>)
                K3 == Emit(BranchTail(K2),
                           <<[op |-> "label", label |-> "skip"],
                             [op |-> "movi", reg |-> r15, imm |-> self_pc + 4]>>)
            IN [k |-> BranchTail(K3), status |-> "Branch"]
              : rt \in get_cpu_register(rs.k, inst.rt)}
           : rs \in get_cpu_register(K, inst.rs)}

compile_instruction(K, inst, self_pc) ==
    CASE inst.op = "LUI" -> emit_lui(K, inst)
      [] inst.op = "ORI" -> IF inst.via = "emit_ori" THEN emit_ori(K, inst)
                            ELSE compile_ori(K, inst)
      [] inst.op = "SW" -> emit_sw(K, inst)
      [] inst.op = "J" -> emit_j(K, inst, self_pc)
      [] inst.op = "JAL" -> emit_jal(K, inst, self_pc)
      [] inst.op = "JR" -> emit_jr(K, inst)
      [] inst.op = "BNE" -> emit_bne(K, inst, self_pc)

\* Instruction::cycles
InstCycles == 5

\* the trailing epilogue of compile_block (lines 188-191)
Epilogue(K) ==
    LET K1 == restore_registers(sync_all_registers(K))
    IN Emit(K1, <<[op |-> "jmp_r13", bound |-> DOMAIN K1.alloc.regs,
                   saved |-> K1.saved_regs]>>)

\* a compile_block whose InvalidateCache arm does not write the guest pc
compile_block_step_nopc(K, inst, at, total, budget) ==
    {IF r.status = "Branch" THEN r
     ELSE IF r.status = "InvalidateCache"
     THEN [k |-> Epilogue(r.k), status |-> "InvalidateCache"]
     ELSE IF total + InstCycles < budget THEN r
     ELSE [k |-> Epilogue(r.k), status |-> "Budget"]
       : r \in compile_instruction(K, inst, at + 4)}

\* a compile_block that compares the budget with total_cycles as it was before
\* the instruction
compile_block_step_late(K, inst, at, total, budget) ==
    {IF r.status = "Branch" THEN r
     ELSE IF r.status = "InvalidateCache"
     THEN [k |-> Epilogue(Emit(r.k, <<[op |-> "movi", reg |-> r14, imm |-> at + 4],
                                      [op |-> "store_pc", reg |-> r14]>>)),
           status |-> "InvalidateCache"]
     ELSE IF total < budget THEN r
     ELSE [k |-> Epilogue(r.k), status |-> "Budget"]
       : r \in compile_instruction(K, inst, at + 4)}

(***************************************************************************)
(* One iteration of the loop of compile_block on instruction inst, fetched *)
(* at address at; total is total_cycles before it, budget is `cycles`.  When it ends the loop, *)
(* the result holds the whole block and status says how the loop ended.    *)
(***************************************************************************)
compile_block_step(K, inst, at, total, budget) ==
    {IF r.status = "Branch" THEN r
     ELSE IF r.status = "InvalidateCache"
     THEN [k |-> Epilogue(Emit(r.k, <<[op |-> "movi", reg |-> r14, imm |-> at + 4],
                                      [op |-> "store_pc", reg |-> r14]>>)),
           status |-> "InvalidateCache"]
     ELSE IF total + InstCycles < budget THEN r
     ELSE [k |-> Epilogue(r.k), status |-> "Budget"]
       : r \in compile_instruction(K, inst, at + 4)}

(***************************************************************************)
(* Running emitted code: the host registers, the gpr array of the state    *)
(* struct and the host stack.  Covers the host instructions of blocks made *)
(* of LUI; execution ends at the jump to the trampoline return register.   *)
(***************************************************************************)
InitialGpr == [i \in 0..31 |-> 100 + i]
InitialHost == [r \in 0..15 |-> 7000 + r]

\* bitwise or of two naturals
RECURSIVE BitOr(_, _)
BitOr(a, b) ==
    IF a = 0 THEN b
    ELSE IF b = 0 THEN a
    ELSE (IF a % 2 = 1 \/ b % 2 = 1 THEN 1 ELSE 0) + 2 * BitOr(a \div 2, b \div 2)

ExecInst(M, inst) ==
    CASE inst.op = "load" -> [M EXCEPT !.host[inst.reg] = M.gpr[inst.slot]]
      [] inst.op = "mov" -> [M EXCEPT !.host[inst.reg] = M.host[inst.src]]
      [] inst.op = "or" -> [M EXCEPT !.host[inst.reg] = BitOr(@, M.host[inst.src])]
      [] inst.op = "store" -> [M EXCEPT !.gpr[inst.slot] = M.host[inst.reg]]
      [] inst.op = "store_pc" -> [M EXCEPT !.pc = M.host[inst.reg]]
      [] inst.op = "cmp" -> [M EXCEPT !.zf = (M.host[inst.reg] = M.host[inst.src])]
      [] inst.op = "movi" -> [M EXCEPT !.host[inst.reg] = inst.imm]
      [] inst.op = "sync" ->
            [M EXCEPT !.gpr = [g \in DOMAIN M.gpr |->
                IF \E p \in inst.pairs : p[1] = g
                THEN M.host[(CHOOSE p \in inst.pairs : p[1] = g)[2]]
                ELSE M.gpr[g]]]
      [] inst.op = "push" -> [M EXCEPT !.stack = Append(@, M.host[inst.reg])]
      [] inst.op = "pop" -> [M EXCEPT !.host[inst.reg] = M.stack[Len(M.stack)],
                                      !.stack = SubSeq(@, 1, Len(@) - 1)]
      [] OTHER -> M

\* the index of the instruction that carries the label
LabelAt(code, label) ==
    CHOOSE i \in DOMAIN code : code[i].op = "label" /\ code[i].label = label

\* a je is taken when the cmp before it found its operands equal
RECURSIVE RunFrom(_, _, _)
RunFrom(code, i, M) ==
    IF i > Len(code) \/ code[i].op = "jmp_r13" THEN M
    ELSE IF code[i].op = "je" /\ M.zf THEN RunFrom(code, LabelAt(code, code[i].label), M)
    ELSE RunFrom(code, i + 1, ExecInst(M, code[i]))

\* the block run from guest registers gpr0
RunBlockOn(code, gpr0) ==
    RunFrom(code, 1, [host |-> InitialHost, gpr |-> gpr0, stack |-> <<>>, pc |-> 0,
                      zf |-> FALSE])

RunBlock(code) == RunBlockOn(code, InitialGpr)

(***************************************************************************)
(* SpecCompile: Compiler::compile on a block whose instructions are drawn  *)
(* one by one (the guest memory is an input), then the emitted code run.   *)
(***************************************************************************)
Comp == [alloc |-> Alloc, saved_regs |-> saved_regs, emitter |-> emitter]

\* the budgets Compiler::compile is called with: for n = 1 .. MaxBlockInsts one that
\* allows n instructions, alternately a multiple of Instruction::cycles and not
Budgets == {n * InstCycles - 4 * (n % 2) : n \in 1..MaxBlockInsts}

InitCompile ==
    /\ UnitIdle
    /\ regs = Compiler_new(RegisterSlice).alloc.regs
    /\ free_regs = Compiler_new(RegisterSlice).alloc.free_regs
    /\ borrow_index = Compiler_new(RegisterSlice).alloc.borrow_index
    /\ last = [op |-> "new", guest |-> None, reg |-> None, dropped |-> None]
    /\ cycles \in Budgets
    /\ cpc = 0
    /\ saved_regs = <<>>
    /\ emitter = <<>>
    /\ status = "Continue"
    /\ lowered = <<>>
    /\ gpr = <<>>
    /\ host = <<>>
    /\ DispIdle

Lower(inst) ==
    /\ status = "Continue"
    /\ Len(lowered) * InstCycles < cycles
    /\ \E r \in compile_block_step(Comp, inst, cpc, Len(lowered) * InstCycles, cycles) :
          /\ SetAlloc(r.k.alloc)
          /\ saved_regs' = r.k.saved_regs
          /\ emitter' = r.k.emitter
          /\ status' = r.status
    /\ cpc' = cpc + 4
    /\ lowered' = Append(lowered, inst)
    /\ UNCHANGED <<unitVars, last, cycles, gpr, host, dispVars>>

\* the translation is still open and one more instruction is lowered
LowerLui(rt, imm) ==
    /\ status = "Continue"
    /\ Lower([op |-> "LUI", rt |-> rt, imm |-> imm])
\* an ORI is drawn with these destination and source guest registers, as first or
\* second instruction of a block
OriTargets == {1}
OriSources == {1, 2}
OriPositions == {1, 2}

LowerOri(rt, rs, imm, via) ==
    /\ Len(lowered) + 1 \in OriPositions
    /\ Lower([op |-> "ORI", rt |-> rt, rs |-> rs, imm |-> imm, via |-> via])
LowerSw(rs, rt, imm) ==
    /\ status = "Continue"
    /\ Lower([op |-> "SW", rs |-> rs, rt |-> rt, imm |-> imm])
LowerJ(target) ==
    /\ status = "Continue"
    /\ Lower([op |-> "J", target |-> target])
LowerJal(target) ==
    /\ status = "Continue"
    /\ Lower([op |-> "JAL", target |-> target])
LowerJr(rs) ==
    /\ status = "Continue"
    /\ Lower([op |-> "JR", rs |-> rs])
LowerBne(rs, rt, imm) ==
    /\ status = "Continue"
    /\ Lower([op |-> "BNE", rs |-> rs, rt |-> rt, imm |-> imm])

OnlyLui(insts) == \A i \in DOMAIN insts : insts[i].op = "LUI"
\* blocks whose host instructions the machine above covers
Straight(insts) == \A i \in DOMAIN insts : insts[i].op \in {"LUI", "ORI"}

\* a straight block closed by a JAL: it runs up to the suspension of emit_interruption
JalEnded(insts) ==
    /\ insts # <<>>
    /\ insts[Len(insts)].op = "JAL"
    /\ Straight(SubSeq(insts, 1, Len(insts) - 1))

\* a straight block closed by a SW: it runs up to the return to the engine
SwEnded(insts) ==
    /\ insts # <<>>
    /\ insts[Len(insts)].op = "SW"
    /\ Straight(SubSeq(insts, 1, Len(insts) - 1))

\* a straight block closed by a BNE: it runs up to the suspension on either path
BneEnded(insts) ==
    /\ insts # <<>>
    /\ insts[Len(insts)].op = "BNE"
    /\ Straight(SubSeq(insts, 1, Len(insts) - 1))

\* the guest registers a BNE block is run from: all distinct, or gpr 1 and 2 equal
BneGprs == {InitialGpr, [InitialGpr EXCEPT ![2] = InitialGpr[1]]}

\* ExecBuffer::execute on a block closed by a BNE; host keeps the host registers and
\* the zero flag at the suspension and the guest registers the block was entered with
ExecuteBne ==
    /\ status = "Branch"
    /\ gpr = <<>>
    /\ BneEnded(lowered)
    /\ \E gpr0 \in BneGprs :
          /\ gpr' = RunBlockOn(emitter, gpr0).gpr
          /\ host' = [reg |-> RunBlockOn(emitter, gpr0).host,
                      zf |-> RunBlockOn(emitter, gpr0).zf, gpr0 |-> gpr0]
    /\ UNCHANGED <<unitVars, allocVars, cycles, cpc, saved_regs, emitter, status, lowered,
                   dispVars>>

\* ExecBuffer::execute on the finished block
Execute ==
    /\ status \in {"InvalidateCache", "Branch", "Budget"}
    /\ gpr = <<>>
    /\ Straight(lowered) \/ JalEnded(lowered) \/ SwEnded(lowered)
    /\ gpr' = RunBlock(emitter).gpr
    /\ UNCHANGED <<unitVars, allocVars, cycles, cpc, saved_regs, emitter, status, lowered, host,
                   dispVars>>

NextCompile ==
    \/ \E rt \in 1..MaxLuiRegs : LowerLui(rt, 16 + rt)
    \/ \E rt \in OriTargets : \E rs \in OriSources :
          \E via \in {"emit_ori", "compile_instruction"} : LowerOri(rt, rs, 22136, via)
    \/ \E rs \in 1..MaxOperandRegs : \E rt \in 1..MaxOperandRegs : LowerSw(rs, rt, 8)
    \/ LowerJ(64)
    \/ LowerJal(64)
    \/ \E rs \in 1..MaxOperandRegs : LowerJr(rs)
    \/ \E rs \in 1..MaxOperandRegs : \E rt \in 1..MaxOperandRegs : LowerBne(rs, rt, 2)
    \/ Execute
    \/ ExecuteBne

SpecCompile == InitCompile /\ [][NextCompile]_vars

(***************************************************************************)
(* The dispatch loop (n64.rs, jit/mod.rs) with the cache (jit/cache.rs),   *)
(* the jump table (jit/jump_table.rs) and the bridge thunks                *)
(* (jit/bridge.rs).                                                        *)
(*                                                                         *)
(* A virtual address is [seg, off]; physical addresses are byte offsets    *)
(* into RDRAM.  The guest program is MemWords words of RDRAM; the words    *)
(* past them hold `J 0`.  Guest instructions are kept by their effect on   *)
(* the dispatch loop: LUI (any instruction that leaves the block open),    *)
(* SW (a store, whose address and value are register contents at run       *)
(* time), J (a branch to a fixed target).                                  *)
(*                                                                         *)
(* At this level the code of a block is the sequence of its calls into the *)
(* bridge and of its writes to the state struct.                           *)
(***************************************************************************)
\* words of guest code
MemWords == 3
\* executable buffers built in one run
MaxBlocks == 5

\* MemInteger::SIZE of the u32 that mmu_store_dword writes
WordSize == 4
\* the budget JitEngine::compile hands to Compiler::compile
CompileCycles == 1024

VAddr(seg, off) == [seg |-> seg, off |-> off]

translate_virtual(addr) ==
    CASE addr.seg = "KSEG0" -> addr.off
      [] addr.seg = "KSEG1" -> addr.off

LUI == [op |-> "LUI"]
SW == [op |-> "SW"]
J(target) == [op |-> "J", target |-> target]
JR == [op |-> "JR"]

GuestInsts == {LUI, SW} \cup {J(t) : t \in 0..(MemWords - 1)}
StoreAddrs == {WordSize * w : w \in 0..(MemWords - 1)}
StoreVals == {LUI, J(0)}
PhysAddrs == {WordSize * w : w \in 0..MemWords}

fetch_instruction(m, addr) ==
    LET w == translate_virtual(addr) \div WordSize
    IN IF w \in DOMAIN m THEN m[w] ELSE J(0)

\* the status the SW lowering would give if the store left the block open
AssembleStatus_open(inst) ==
    CASE inst.op = "J" -> "Branch"
      [] OTHER -> "Continue"

\* the AssembleStatus each lowering returns
AssembleStatus(inst) ==
    CASE inst.op = "SW" -> "InvalidateCache"
      [] inst.op = "J" -> "Branch"
      [] inst.op = "JR" -> "Branch"
      [] OTHER -> "Continue"

\* the calls and state writes the lowering of inst emits; self_pc is Compiler.pc,
\* already past the instruction
emit(inst, self_pc) ==
    CASE inst.op = "SW" -> <<[op |-> "mmu_store_dword"]>>
      [] inst.op = "J" ->
            <<[op |-> "PrepareJump",
               addr |-> VAddr(self_pc.seg, WordSize * inst.target)]>>
      [] inst.op = "JR" -> <<[op |-> "PrepareJumpReg"]>>
      [] OTHER -> <<>>

\* Compiler::compile_block: the emitted code and Compiler.pc when the loop ends
RECURSIVE compile_block(_, _, _, _)
compile_block(m, self_pc, code, total_cycles) ==
    IF ~(total_cycles < CompileCycles)
    THEN [code |-> Append(code, [op |-> "jmp_r13"]), pc |-> self_pc]
    ELSE LET inst == fetch_instruction(m, self_pc)
             next_pc == VAddr(self_pc.seg, self_pc.off + 4)
             st == AssembleStatus(inst)
             code1 == code \o emit(inst, next_pc)
         IN CASE st = "Branch" -> [code |-> code1, pc |-> next_pc]
              [] st = "InvalidateCache" ->
                    [code |-> code1 \o <<[op |-> "write_pc", addr |-> next_pc],
                                         [op |-> "jmp_r13"]>>,
                     pc |-> next_pc]
              [] OTHER -> compile_block(m, next_pc, code1, total_cycles + InstCycles)

\* Compiler::new(..).compile(cycles) and CompiledBlock::new(buf, virtual_pc, len)
Compiler_compile(m, virtual_pc) ==
    LET r == compile_block(m, virtual_pc, <<>>, 0)
    IN [virtual_pc |-> virtual_pc, len |-> r.pc.off - virtual_pc.off, code |-> r.code]

\* ---- Cache ----
\* a cache entry is [ptr, start, len]
\* a lookup-or-build that builds and inserts whether or not the key is present
always_insert_with(C, addr, built) ==
    [cache |-> [k \in (DOMAIN C) \cup {addr} |-> IF k = addr THEN built ELSE C[k]],
     block |-> built, built |-> TRUE]

get_or_insert_with(C, addr, built) ==
    IF addr \in DOMAIN C
    THEN [cache |-> C, block |-> C[addr], built |-> FALSE]
    ELSE [cache |-> [k \in (DOMAIN C) \cup {addr} |-> IF k = addr THEN built ELSE C[k]],
          block |-> built, built |-> TRUE]

invalidate_range(C, inv_range) ==
    LET keep == {k \in DOMAIN C :
                    ~(inv_range.start <= C[k].start + C[k].len /\ inv_range.end >= C[k].start)}
    IN [k \in keep |-> C[k]]

\* ---- JumpTable ----
JumpTable_get(T, phys_jump_addr) ==
    [k \in (DOMAIN T) \cup {phys_jump_addr} |-> IF k \in DOMAIN T THEN T[k] ELSE None]

resolve_with_block(T, phys_addr, ptr) ==
    IF phys_addr \in DOMAIN T
    THEN LET entry == IF T[phys_addr] = None THEN Some(ptr) ELSE T[phys_addr]
         IN [table |-> [T EXCEPT ![phys_addr] = entry], entry |-> Some(TheOne(entry))]
    ELSE [table |-> T, entry |-> None]

\* ---- Interruption ----
\* a read of the interruption that leaves it in place
Interruption_peek(int) == [int |-> int, left |-> int]

Interruption_take(int) == [int |-> int, left |-> None]

\* ---- JitEngine ----
\* E is [mem, pc, cache, blocks, jump_table]
JitEngine_compile(E, virtual_pc) ==
    LET physical_pc == translate_virtual(E.pc)
        blk == Compiler_compile(E.mem, virtual_pc)
        r == get_or_insert_with(E.cache, physical_pc,
                                [ptr |-> Len(E.blocks) + 1, start |-> physical_pc,
                                 len |-> blk.len])
    IN [engine |-> [E EXCEPT !.cache = r.cache,
                             !.blocks = IF r.built THEN Append(@, blk) ELSE @],
        block |-> r.block, built |-> r.built, key |-> physical_pc]

\* invalidate_cache that applies the interval and leaves it posted
invalidate_cache_keep(C, inv) ==
    [cache |-> IF inv # None THEN invalidate_range(C, TheOne(inv)) ELSE C,
     cache_invalidation |-> inv]

invalidate_cache(C, inv) ==
    [cache |-> IF inv # None THEN invalidate_range(C, TheOne(inv)) ELSE C,
     cache_invalidation |-> None]

resolve_jump(E, addr) ==
    LET c == JitEngine_compile(E, addr)
        r == resolve_with_block(c.engine.jump_table, translate_virtual(addr), c.block.ptr)
    IN [engine |-> [c.engine EXCEPT !.jump_table = r.table],
        entry |-> r.entry, block |-> c.block, built |-> c.built, key |-> c.key]

\* ---- bridge thunks, on R = [mem, pc, cache_invalidation, interruption,
\* resume_addr, jump_table, stores, lost, handled] ----
mmu_store(R, phys_addr, value) ==
    [R EXCEPT !.cache_invalidation = Some([start |-> phys_addr, end |-> phys_addr + WordSize]),
              !.mem = [w \in DOMAIN @ |-> IF w = phys_addr \div WordSize THEN value ELSE @[w]],
              !.stores = @ + 1,
              !.lost = @ \/ R.cache_invalidation # None]

get_host_jump_addr(R, n64_addr) ==
    [R EXCEPT !.jump_table = JumpTable_get(@, translate_virtual(n64_addr))]

\* the values the guest register of a JR may hold: the mapped virtual addresses
JrTargets == {VAddr(seg, WordSize * w) : seg \in {"KSEG0", "KSEG1"}, w \in 0..(MemWords - 1)}

\* The emitted code of block ptr from instruction i on, up to its jump to the
\* trampoline return register: the set of states it can leave.
RECURSIVE run_code(_, _, _, _)
run_code(code, i, ptr, R) ==
    IF i > Len(code) \/ code[i].op = "jmp_r13" THEN {R}
    ELSE CASE code[i].op = "mmu_store_dword" ->
                UNION {run_code(code, i + 1, ptr, mmu_store(R, p, v)) :
                          p \in StoreAddrs, v \in StoreVals}
           [] code[i].op = "write_pc" ->
                run_code(code, i + 1, ptr, [R EXCEPT !.pc = code[i].addr])
           [] code[i].op = "PrepareJump" ->
                {[get_host_jump_addr(R, code[i].addr)
                    EXCEPT !.interruption = Some(code[i].addr), !.resume_addr = ptr,
                           !.handled = 0]}
           [] code[i].op = "PrepareJumpReg" ->
                {[get_host_jump_addr(R, t)
                    EXCEPT !.interruption = Some(t), !.resume_addr = ptr, !.handled = 0] :
                    t \in JrTargets}

(***************************************************************************)
(* SpecDispatch: the loop of N64::cycle.  Dispatch is the engine's half of *)
(* an iteration, up to the call into emitted code; Run is the emitted      *)
(* code, up to its return to the engine.  A pointer into a buffer that the *)
(* cache has dropped is dangling: entering it either runs the code the     *)
(* buffer held (Run) or faults (Crash).                                    *)
(***************************************************************************)
Live(C) == {C[k].ptr : k \in DOMAIN C}

EmptyMap == [k \in {} |-> None]

InitDispatch ==
    /\ UnitIdle
    /\ regs = <<>> /\ free_regs = {} /\ borrow_index = 0 /\ last = <<>>
    /\ CompIdle
    /\ mem \in [0..(MemWords - 1) -> GuestInsts]
    /\ pc \in {VAddr("KSEG0", WordSize * w) : w \in 0..(MemWords - 1)}
    /\ cache_invalidation = None
    /\ interruption = None
    /\ resume_addr = 0
    /\ cache = EmptyMap
    /\ jump_table = EmptyMap
    /\ blocks = <<>>
    /\ phase = "engine"
    /\ hist = [pending |-> None, before |-> EmptyMap, after |-> EmptyMap, removed |-> {},
               jump |-> None, mode |-> "none", enter |-> 0, via |-> {}, lookups |-> <<>>,
               stores |-> 0, lost |-> FALSE, handled |-> 0,
               builds |-> [k \in PhysAddrs |-> 0]]

Lookup(before, r) ==
    [key |-> r.key, hit |-> ~r.built, ret |-> r.block, before |-> before,
     after |-> r.engine.cache]

\* N64::cycle, the else arm: compile_current_pc, then execute
cycle_execute(E, looks) ==
    LET code == JitEngine_compile(E, E.pc)
    IN [engine |-> code.engine, mode |-> "execute", enter |-> code.block.ptr,
        lookups |-> Append(looks, Lookup(E.cache, code))]

\* N64::cycle on PrepareJump(addr), cpu.pc already set: resolve_jump, then
\* resume_from if the jump entry is there
cycle_jump(E, addr) ==
    LET resume_jump == resolve_jump(E, addr)
    IN IF resume_jump.entry # None
       THEN [engine |-> resume_jump.engine, mode |-> "resume",
             enter |-> TheOne(resume_jump.entry),
             lookups |-> <<Lookup(E.cache, resume_jump)>>]
       ELSE cycle_execute(resume_jump.engine, <<Lookup(E.cache, resume_jump)>>)

cycle_interruption(E, t) ==
    IF t.int # None
    THEN cycle_jump([E EXCEPT !.pc = TheOne(t.int)], TheOne(t.int))
    ELSE cycle_execute(E, <<>>)

\* one iteration of the loop of N64::cycle, up to the call into emitted code
N64_cycle(E, inv, int) ==
    [step |-> cycle_interruption([E EXCEPT !.cache = invalidate_cache(E.cache, inv).cache],
                                 Interruption_take(int)),
     cache_invalidation |-> invalidate_cache(E.cache, inv).cache_invalidation,
     interruption |-> Interruption_take(int).left,
     taken |-> Interruption_take(int).int,
     after |-> invalidate_cache(E.cache, inv).cache]

\* the observations of an iteration r that started with cache C and interval inv
Built(looks) == {looks[i].key : i \in {j \in DOMAIN looks : ~looks[j].hit}}

Observe(h, C, inv, via, r) ==
    [h EXCEPT
        !.pending = inv,
        !.before = C,
        !.after = r.after,
        !.removed = {C[k].ptr : k \in (DOMAIN C) \ (DOMAIN r.after)},
        !.jump = r.taken,
        !.mode = r.step.mode,
        !.enter = r.step.enter,
        !.via = IF r.step.mode = "resume" THEN {via} ELSE {},
        !.lookups = r.step.lookups,
        !.stores = IF r.cache_invalidation = None THEN 0 ELSE @,
        !.handled = IF r.taken # None THEN @ + 1 ELSE @,
        !.builds = [k \in PhysAddrs |->
                       (IF k \in (DOMAIN C) \ (DOMAIN r.after) THEN 0 ELSE @[k])
                       + (IF k \in Built(r.step.lookups) THEN 1 ELSE 0)]]

Dispatch ==
    /\ phase = "engine"
    /\ Len(blocks) < MaxBlocks
    /\ \E r \in {N64_cycle([mem |-> mem, pc |-> pc, cache |-> cache, blocks |-> blocks,
                            jump_table |-> jump_table],
                           cache_invalidation, interruption)} :
          /\ cache' = r.step.engine.cache
          /\ blocks' = r.step.engine.blocks
          /\ jump_table' = r.step.engine.jump_table
          /\ pc' = r.step.engine.pc
          /\ cache_invalidation' = r.cache_invalidation
          /\ interruption' = r.interruption
          /\ hist' = Observe(hist, cache, cache_invalidation, resume_addr, r)
    /\ phase' = "run"
    /\ UNCHANGED <<unitVars, mem, resume_addr, allocVars, compVars>>

Entered == hist.via \cup {hist.enter}

Run ==
    /\ phase = "run"
    /\ \E R \in run_code(blocks[hist.enter].code, 1, hist.enter,
                         [mem |-> mem, pc |-> pc, cache_invalidation |-> cache_invalidation,
                          interruption |-> interruption, resume_addr |-> resume_addr,
                          jump_table |-> jump_table, stores |-> hist.stores,
                          lost |-> hist.lost, handled |-> hist.handled]) :
          /\ mem' = R.mem
          /\ pc' = R.pc
          /\ cache_invalidation' = R.cache_invalidation
          /\ interruption' = R.interruption
          /\ resume_addr' = R.resume_addr
          /\ jump_table' = R.jump_table
          /\ hist' = [hist EXCEPT !.stores = R.stores, !.lost = R.lost,
                                  !.handled = R.handled]
    /\ phase' = "engine"
    /\ UNCHANGED <<unitVars, cache, blocks, allocVars, compVars>>

Crash ==
    /\ phase = "run"
    /\ ~(Entered \subseteq Live(cache))
    /\ phase' = "crashed"
    /\ UNCHANGED <<unitVars, mem, pc, cache_invalidation, interruption, resume_addr, cache,
                   jump_table, blocks, hist, allocVars, compVars>>

NextDispatch ==
    \/ Dispatch
    \/ Run
    \/ Crash

SpecDispatch == InitDispatch /\ [][NextDispatch]_vars

(***************************************************************************)
(* The memory thunks of the bridge (jit/bridge.rs) on the bytes of RDRAM   *)
(* (mmu/memory.rs).  RDRAM is RdramSize bytes, physical addresses          *)
(* 0 .. RdramSize-1; the addresses past it are an unused region.  S is     *)
(* [rdram, cache_invalidation, gpr, pc, interruption, resume_addr, panic]. *)
(***************************************************************************)
\* bytes of RDRAM (the length of MemoryManager.rdram and of RDRAM_RANGE)
RdramSize == 8

\* values handed to mmu_store_dword
StoreWords == {16909060}

PhysicalMemoryMap_from(addr) == IF addr < RdramSize THEN "RDRAM" ELSE "Unused"

\* byteorder::BigEndian::write_u32 on buf[addr .. addr + 4]
write_u32(buf, addr, value) ==
    [a \in DOMAIN buf |->
        IF a \in addr..(addr + WordSize - 1)
        THEN (value \div (256 ^ (WordSize - 1 - (a - addr)))) % 256
        ELSE buf[a]]

\* MemoryManager::store::<u32, BigEndian>; the slice rdram[addr .. addr + 4]
\* panics when it runs past the end of rdram
MemoryManager_store(S, addr, value) ==
    CASE PhysicalMemoryMap_from(addr) = "RDRAM" ->
            IF addr + WordSize > RdramSize
            THEN [S EXCEPT !.panic = TRUE]
            ELSE [S EXCEPT !.rdram = write_u32(@, addr, value)]
      [] OTHER -> S

\* the segments of VIRT_MAP; translate_virtual handles two of them and panics on the rest
Segments == {"KUSEG", "KSEG0", "KSEG1", "KSSEG", "KSEG3"}
Unhandled(addr) == addr.seg \notin {"KSEG0", "KSEG1"}

mmu_store_dword(S, virt_addr, value) ==
    IF Unhandled(virt_addr) THEN [S EXCEPT !.panic = TRUE]
    ELSE MemoryManager_store(
           [S EXCEPT !.cache_invalidation =
                         Some([start |-> translate_virtual(virt_addr),
                               end |-> translate_virtual(virt_addr) + WordSize])],
           translate_virtual(virt_addr), value)

\* the thunks mmu_read_byte, mmu_read_word, mmu_read_dword
ReadKinds == {"byte", "word", "dword"}
\* MemInteger::SIZE of u8, u16 (1 in the source) and u32
MemInteger_SIZE(kind) == IF kind = "dword" THEN WordSize ELSE 1
\* the bytes read_from takes from the slice: buf[0], read_u16, read_u32
ReadWidth(kind) == CASE kind = "byte" -> 1 [] kind = "word" -> 2 [] kind = "dword" -> WordSize

\* an integer read is kept as its bytes, most significant first (a u32 does not
\* fit the checker's integers); Default is I::default()
read_be(buf, addr, n) == [i \in 1..n |-> buf[addr + i - 1]]
Default(kind) == [i \in 1..ReadWidth(kind) |-> 0]

\* MemoryManager::read: the slice rdram[addr .. addr + SIZE] panics past the end of
\* rdram, read_from panics on a slice shorter than the integer; other regions give 0
MemoryManager_read(S, addr, kind) ==
    CASE PhysicalMemoryMap_from(addr) = "RDRAM" ->
            IF addr + MemInteger_SIZE(kind) > RdramSize \/ ReadWidth(kind) > MemInteger_SIZE(kind)
            THEN [value |-> Default(kind), panic |-> TRUE]
            ELSE [value |-> read_be(S.rdram, addr, ReadWidth(kind)), panic |-> FALSE]
      [] OTHER -> [value |-> Default(kind), panic |-> FALSE]

mmu_read(S, virt_addr, kind) ==
    IF Unhandled(virt_addr) THEN [value |-> Default(kind), panic |-> TRUE]
    ELSE MemoryManager_read(S, translate_virtual(virt_addr), kind)

(***************************************************************************)
(* SpecBridge: the thunks called in any order on any address.              *)
(***************************************************************************)
Bridge ==
    [rdram |-> mem, cache_invalidation |-> cache_invalidation, gpr |-> gpr, pc |-> pc,
     interruption |-> interruption, resume_addr |-> resume_addr, panic |-> FALSE]

\* the part of the state a memory thunk has no business with
Registers_of(S) ==
    [gpr |-> S.gpr, pc |-> S.pc, interruption |-> S.interruption,
     resume_addr |-> S.resume_addr]

InitBridge ==
    /\ UnitIdle
    /\ regs = <<>> /\ free_regs = {} /\ borrow_index = 0
    /\ last = [op |-> "new"]
    /\ cycles = 0 /\ cpc = 0 /\ saved_regs = <<>> /\ emitter = <<>> /\ status = "Continue"
    /\ lowered = <<>>
    /\ gpr = InitialGpr
    /\ host = <<>>
    /\ mem = [a \in 0..(RdramSize - 1) |-> 0]
    /\ pc = VAddr("KSEG0", 0)
    /\ cache_invalidation \in {None, Some([start |-> 0, end |-> WordSize])}
    /\ interruption \in {None, Some(VAddr("KSEG0", 0))}
    /\ resume_addr = 0
    /\ cache = <<>> /\ jump_table = <<>> /\ blocks = <<>> /\ hist = <<>>
    /\ phase = "bridge"

MmuStoreDword(virt_addr, value) ==
    /\ phase = "bridge"
    /\ LET S == mmu_store_dword(Bridge, virt_addr, value)
       IN /\ mem' = S.rdram
          /\ cache_invalidation' = S.cache_invalidation
          /\ gpr' = S.gpr
          /\ pc' = S.pc
          /\ interruption' = S.interruption
          /\ resume_addr' = S.resume_addr
          /\ phase' = IF S.panic THEN "panic" ELSE "bridge"
    /\ last' = [op |-> "mmu_store_dword", vaddr |-> virt_addr,
                phys |-> IF Unhandled(virt_addr) THEN None
                         ELSE Some(translate_virtual(virt_addr)),
                value |-> value, before |-> Registers_of(Bridge),
                wrote |-> mmu_store_dword(Bridge, virt_addr, value).rdram # mem]
    /\ UNCHANGED <<unitVars, regs, free_regs, borrow_index, cycles, cpc, saved_regs, emitter, status,
                   lowered, host, cache, jump_table, blocks, hist>>

MmuRead(virt_addr, kind) ==
    /\ phase = "bridge"
    /\ phase' = IF mmu_read(Bridge, virt_addr, kind).panic THEN "panic" ELSE "bridge"
    /\ last' = [op |-> "mmu_read", kind |-> kind, vaddr |-> virt_addr,
                phys |-> IF Unhandled(virt_addr) THEN None
                         ELSE Some(translate_virtual(virt_addr)),
                value |-> mmu_read(Bridge, virt_addr, kind).value]
    /\ UNCHANGED <<unitVars, regs, free_regs, borrow_index, cycles, cpc, saved_regs, emitter, status,
                   lowered, gpr, host, mem, pc, cache_invalidation, interruption,
                   resume_addr, cache, jump_table, blocks, hist>>

\* the virtual addresses handed to the thunks
BridgeAddrs == {VAddr(seg, off) : seg \in Segments, off \in 0..RdramSize}

NextBridge ==
    \/ \E virt_addr \in BridgeAddrs : \E value \in StoreWords :
          MmuStoreDword(virt_addr, value)
    \/ \E virt_addr \in BridgeAddrs : \E kind \in ReadKinds : MmuRead(virt_addr, kind)

SpecBridge == InitBridge /\ [][NextBridge]_vars

(***************************************************************************)
(* The resume address (instructions.rs 506-522, bridge.rs 56-67).  Host    *)
(* addresses are byte offsets from the return address of the call to       *)
(* get_rip_value.  An instruction on r8..r15 carries a REX prefix; the     *)
(* 64-bit store through r14 always does.                                   *)
(***************************************************************************)
RexLen(reg) == IF reg >= r8 THEN 1 ELSE 0

\* encoded length of the host instructions emitted after the call
EncodedLen(inst) ==
    CASE inst.op = "set_resume_addr" -> RexLen(r14) + 2    \* mov qword [r14], rax
      [] inst.op = "pop" -> RexLen(inst.reg) + 1
      [] inst.op = "jmp_r13" -> RexLen(r13) + 2

\* the offset of the end of code[k], counted from the start of code[i]
RECURSIVE EndOffset(_, _, _)
EndOffset(code, i, k) ==
    IF i > k THEN 0 ELSE EncodedLen(code[i]) + EndOffset(code, i + 1, k)

\* mov rax, [rsp]; add rax, rdi; ret
get_rip_value(return_address, disp) == return_address + disp

(***************************************************************************)
(* SpecCall: one wrap_call sequence (instructions.rs 45-65, 528-614)       *)
(* emitted for an argument list and run, one host instruction per step, on *)
(* a host machine: sixteen registers, the stack as the quadwords written   *)
(* so far, and the position in the emitted code.  The callee is any System *)
(* V function: it overwrites the caller-saved registers and the stack      *)
(* below its return address and returns with the callee-saved registers    *)
(* and rsp as they were at the call.                                       *)
(***************************************************************************)
\* the longest argument list drawn (wrap_call accepts up to Len(ARGS_REGS))
MaxArgs == 3

\* source operands: argument registers, rax, a scratch register, an immediate
CallSources == {rdi, rsi, rdx, rax, r14}
CallOperands ==
    {[kind |-> "reg", reg |-> r] : r \in CallSources} \cup {[kind |-> "val", val |-> 42]}
ArgLists == UNION {[1..n -> CallOperands] : n \in 0..MaxArgs}

\* 8-byte-aligned stack pointers at the start of the sequence, of both residues mod 16
RspStarts == {264, 272}

CallerSaved == {rax, rcx, rdx, rsi, rdi, r8, r9, r10, r11}
Clobbered == 0 - 1

LowByte(v, b) == (v \div 256) * 256 + (b % 256)

Write(stack, a, v) == (a :> v) @@ stack

\* what one emitted host instruction does to the machine
X86Exec(M, inst) ==
    CASE inst.op = "push" ->
            [M EXCEPT !.reg[rsp] = @ - 8,
                      !.stack = Write(@, M.reg[rsp] - 8, M.reg[inst.reg])]
      [] inst.op = "pop" ->
            [M EXCEPT !.reg = [@ EXCEPT ![rsp] = @ + 8, ![inst.reg] = M.stack[M.reg[rsp]]]]
      [] inst.op = "sub_rsp" -> [M EXCEPT !.reg[rsp] = @ - inst.imm]
      [] inst.op = "add_rsp" -> [M EXCEPT !.reg[rsp] = @ + inst.imm]
      [] inst.op = "store_stack" ->
            [M EXCEPT !.stack = Write(@, M.reg[rsp] + inst.index, M.reg[inst.reg])]
      [] inst.op = "load_stack" ->
            [M EXCEPT !.reg[inst.reg] = M.stack[M.reg[rsp] + inst.index]]
      [] inst.op = "mov" -> [M EXCEPT !.reg[inst.reg] = M.reg[inst.src]]
      [] inst.op = "movi" -> [M EXCEPT !.reg[inst.reg] = inst.imm]
      [] inst.op = "mov_bl_spl" -> [M EXCEPT !.reg[rbx] = LowByte(@, M.reg[rsp])]
      [] inst.op = "and_rsp" -> [M EXCEPT !.reg[rsp] = @ - (@ % 16)]
      [] inst.op = "mov_spl_bl" -> [M EXCEPT !.reg[rsp] = LowByte(@, M.reg[rbx])]
      [] inst.op = "call" ->
            [M EXCEPT !.at_call = Some(M.reg),
                      !.reg = [r \in DOMAIN M.reg |->
                                  IF r \in CallerSaved THEN Clobbered ELSE M.reg[r]],
                      !.stack = [a \in DOMAIN M.stack |->
                                  IF a < M.reg[rsp] THEN Clobbered ELSE M.stack[a]]]
      [] OTHER -> M   \* stores to the guest state leave registers and stack alone

\* the translator before the call: fresh, or with guest register 1 bound
CallCompilers ==
    {Compiler_new(RegisterSlice)}
        \cup {r.k : r \in get_cpu_register(Compiler_new(RegisterSlice), 1)}

InitCall ==
    \E K \in CallCompilers : \E args \in ArgLists : \E start \in RspStarts :
        /\ regs = wrap_call(K, 9000, args).alloc.regs
        /\ free_regs = wrap_call(K, 9000, args).alloc.free_regs
        /\ borrow_index = wrap_call(K, 9000, args).alloc.borrow_index
        /\ saved_regs = wrap_call(K, 9000, args).saved_regs
        /\ emitter = wrap_call(K, 9000, args).emitter
        /\ last = [op |-> "wrap_call", args |-> args, rsp |-> start]
        /\ host = [reg |-> [InitialHost EXCEPT ![rsp] = start], stack |-> <<>>,
                   at_call |-> None, ip |-> Len(K.emitter) + 1]
        /\ cycles = 0 /\ cpc = 0 /\ status = "Continue" /\ lowered = <<>> /\ gpr = <<>>
        /\ UnitIdle
        /\ DispIdle

HostStep ==
    /\ host.ip <= Len(emitter)
    /\ host' = [X86Exec(host, emitter[host.ip]) EXCEPT !.ip = @ + 1]
    /\ UNCHANGED <<unitVars, allocVars, cycles, cpc, saved_regs, emitter, status, lowered, gpr,
                   dispVars>>

NextCall == HostStep

SpecCall == InitCall /\ [][NextCall]_vars

(***************************************************************************)
(* C1 -- after every insert, get, free or exclude_register, no host        *)
(* register is both in the free set and bound in the map, no host register *)
(* is bound to two guest slots, and the register insert has just returned  *)
(* is bound to no guest slot other than the one inserted.                  *)
(***************************************************************************)
NoFreeAndBound == \A g \in DOMAIN regs : regs[g].register \notin free_regs

NoDoubleBinding ==
    \A g \in DOMAIN regs : \A h \in DOMAIN regs :
        g # h => regs[g].register # regs[h].register

InsertReturnsUnshared ==
    last.op = "insert" =>
        \A h \in DOMAIN regs : h \notin last.guest => regs[h].register \notin last.reg

C1_AllocatorInjective ==
    last.op \in {"insert", "get", "free", "exclude"} =>
        NoFreeAndBound /\ NoDoubleBinding /\ InsertReturnsUnshared

\* the case of C1: an insert that evicted has returned
C1_InsertEvicted == last.op = "insert" /\ last.dropped # None

(***************************************************************************)
(* C2 -- a block that writes a distinct constant to each of k distinct     *)
(* guest registers with LUI leaves, once its epilogue has run, every       *)
(* written gpr holding its own constant and every other gpr unchanged, as  *)
(* interpreting the same instructions one after the other does; also when  *)
(* k exceeds the number of allocatable host registers.                     *)
(***************************************************************************)
RECURSIVE Interpret(_, _, _)
Interpret(insts, i, g) ==
    IF i > Len(insts) THEN g
    ELSE Interpret(insts, i + 1,
                   [g EXCEPT ![insts[i].rt] =
                       IF insts[i].op = "ORI" THEN BitOr(g[insts[i].rs], insts[i].imm)
                       ELSE insts[i].imm * 65536])

DistinctLui(insts) ==
    /\ OnlyLui(insts)
    /\ \A i \in DOMAIN insts : \A j \in DOMAIN insts : i # j => insts[i].rt # insts[j].rt

C2_LuiBlockAsInterpreted ==
    (gpr # <<>> /\ DistinctLui(lowered)) => gpr = Interpret(lowered, 1, InitialGpr)

\* a block of at least two LUIs with distinct constants has been run
C2_Executed == gpr # <<>> /\ DistinctLui(lowered) /\ Len(lowered) >= 2

(***************************************************************************)
(* C3 -- in every state of the dispatch loop, each jump-table entry that   *)
(* carries a resolved pointer points to the entry of a block that is in    *)
(* the cache: no entry outlives the block it was resolved to.              *)
(***************************************************************************)
C3_JumpTablePointsIntoCache ==
    \A k \in DOMAIN jump_table :
        jump_table[k] # None => TheOne(jump_table[k]) \in Live(cache)

(***************************************************************************)
(* C4 -- each iteration takes and applies the pending invalidation before  *)
(* anything else: when emitted code is entered, cache_invalidation is None *)
(* and no block the invalidation of this iteration removed is entered.     *)
(***************************************************************************)
\* the guest bytes of cache entry e meet the inclusive interval inv
BytesIntersect(e, inv) ==
    \E x \in e.start..(e.start + e.len - 1) : inv.start <= x /\ x <= inv.end

C4_InvalidationFirst ==
    phase = "run" =>
        /\ cache_invalidation = None
        /\ hist.pending # None =>
              \A k \in DOMAIN hist.before :
                  BytesIntersect(hist.before[k], TheOne(hist.pending)) =>
                      /\ hist.before[k].ptr \notin Entered
                      /\ hist.before[k].ptr \notin Live(cache)

\* an iteration whose invalidation removed a block is about to enter emitted code
C4_RemovedThenRun == phase = "run" /\ hist.pending # None /\ hist.removed # {}

(***************************************************************************)
(* C5 -- invalidating the inclusive interval [a, b] removes a cache entry  *)
(* exactly when the guest bytes start .. start+len-1 of its block          *)
(* intersect [a, b]; every other entry stays, under its key, with its      *)
(* block.                                                                  *)
(***************************************************************************)
C5_RemovesExactlyIntersecting ==
    hist.pending # None =>
        \A k \in DOMAIN hist.before :
            IF BytesIntersect(hist.before[k], TheOne(hist.pending))
            THEN k \notin DOMAIN hist.after
            ELSE k \in DOMAIN hist.after /\ hist.after[k] = hist.before[k]

(***************************************************************************)
(* C6 -- between two consecutive drains of cache_invalidation by the       *)
(* engine at most one guest store runs, and no store overwrites an         *)
(* interval that has not been drained.                                     *)
(***************************************************************************)
C6_OneStorePerDrain == hist.stores <= 1 /\ ~hist.lost

\* a store has posted its interval and the engine has not yet drained it
C6_StorePosted == phase = "engine" /\ hist.stores = 1 /\ cache_invalidation # None

(***************************************************************************)
(* C7 -- a PrepareJump written by emitted code is handled by exactly one   *)
(* iteration (the take leaves None behind), and interruption is None       *)
(* whenever emitted code starts or resumes.                                *)
(***************************************************************************)
C7_JumpHandledOnce ==
    /\ hist.handled <= 1
    /\ phase = "run" => interruption = None
    /\ (phase = "run" /\ hist.jump # None) => hist.handled = 1
    /\ (phase = "engine" /\ interruption # None) => hist.handled = 0

\* the engine has taken a PrepareJump and is about to resume
C7_JumpTaken == phase = "run" /\ hist.jump # None /\ hist.mode = "resume"

(***************************************************************************)
(* C8 -- an iteration that begins with PrepareJump(v) sets the guest pc to *)
(* v, leaves a block for the physical translation of v in the cache, and   *)
(* resumes the suspended block passing the entry pointer of that block; it *)
(* never falls back to a fresh execute.                                    *)
(***************************************************************************)
C8_ResumeIntoTarget ==
    (phase = "run" /\ hist.jump # None) =>
        LET v == TheOne(hist.jump)
        IN /\ pc = v
           /\ translate_virtual(v) \in DOMAIN cache
           /\ hist.mode = "resume"
           /\ hist.enter = cache[translate_virtual(v)].ptr

(***************************************************************************)
(* C9 -- the lookup-or-build of the cache is idempotent per key: between   *)
(* two invalidations that remove a key the build runs at most once for it, *)
(* and every later lookup returns the cached block without building and    *)
(* leaves the cache as it was.                                             *)
(***************************************************************************)
C9_BuildOncePerKey ==
    /\ \A k \in PhysAddrs : hist.builds[k] <= 1
    /\ \A i \in DOMAIN hist.lookups :
          LET l == hist.lookups[i]
          IN IF l.key \in DOMAIN l.before
             THEN l.hit /\ l.ret = l.before[l.key] /\ l.after = l.before
             ELSE ~l.hit /\ l.after[l.key] = l.ret
                  /\ \A k \in DOMAIN l.before : l.after[k] = l.before[k]

\* a lookup found the block an earlier iteration built
C9_LookupHit ==
    /\ phase = "run"
    /\ \E i \in DOMAIN hist.lookups :
          hist.lookups[i].hit /\ hist.builds[hist.lookups[i].key] = 1

(***************************************************************************)
(* C10 -- at every jmp r13 emitted in a block, on every control path that  *)
(* reaches it, the allocator map is empty (every bound slot was stored by  *)
(* the sync before it) and every push of the block has been undone by a    *)
(* pop of the same register in reverse order, so the stack pointer is the  *)
(* one of block entry.                                                     *)
(***************************************************************************)
RECURSIVE StackWalk(_, _, _)
StackWalk(code, i, W) ==
    IF i > Len(code) THEN TRUE
    ELSE LET inst == code[i]
             top == W.stack[Len(W.stack)]
             popped == [W EXCEPT !.stack = SubSeq(@, 1, Len(@) - 1)]
         IN CASE inst.op = "push" ->
                    StackWalk(code, i + 1, [W EXCEPT !.stack = Append(@, inst.reg)])
              [] inst.op = "pop" ->
                    W.stack # <<>> /\ top = inst.reg /\ StackWalk(code, i + 1, popped)
              [] inst.op = "sub_rsp" ->
                    StackWalk(code, i + 1, [W EXCEPT !.stack = Append(@, 100 + inst.imm)])
              [] inst.op = "add_rsp" ->
                    W.stack # <<>> /\ top = 100 + inst.imm /\ StackWalk(code, i + 1, popped)
              [] inst.op = "and_rsp" ->
                    StackWalk(code, i + 1, [W EXCEPT !.stack = Append(@, 99)])
              [] inst.op = "mov_spl_bl" ->
                    W.stack # <<>> /\ top = 99 /\ StackWalk(code, i + 1, popped)
              [] inst.op = "je" ->
                    StackWalk(code, i + 1, [W EXCEPT !.at_je = W.stack])
              [] inst.op = "label" ->
                    StackWalk(code, i + 1, [W EXCEPT !.stack = W.at_je])
              [] inst.op = "jmp_r13" ->
                    /\ inst.bound = {}
                    /\ W.stack = <<>>
                    /\ StackWalk(code, i + 1, W)
              [] OTHER -> StackWalk(code, i + 1, W)

C10_SuspendSyncedAndBalanced ==
    StackWalk(emitter, 1, [stack |-> <<>>, at_je |-> <<>>])

\* the case of C10: a block that pushed r12 and branches with BNE has been translated
C10_BranchBlockPushed ==
    /\ status = "Branch"
    /\ lowered[Len(lowered)].op = "BNE"
    /\ \E i \in DOMAIN emitter : emitter[i].op = "push" /\ emitter[i].reg = r12

(***************************************************************************)
(* C11 -- translation stops at the first instruction whose lowering        *)
(* returns InvalidateCache or Branch: every instruction lowered before the *)
(* last one left the block open and Compiler.pc is just past the last one; *)
(* on InvalidateCache the emitted code ends with the write of guest pc =   *)
(* address of that instruction + 4 followed by the trailing epilogue; on   *)
(* Branch the code ends with the branch lowering's own jump, with no       *)
(* trailing epilogue after it.                                             *)
(***************************************************************************)
OpIdx(code, op) == {i \in DOMAIN code : code[i].op = op}

LastOp(code, op) == CHOOSE i \in OpIdx(code, op) : \A j \in OpIdx(code, op) : j <= i

C11_StopsAtTerminator ==
    /\ \A i \in 1..(Len(lowered) - 1) : lowered[i].op \in {"LUI", "ORI"}
    /\ cpc = 4 * Len(lowered)
    /\ status = "InvalidateCache" =>
          /\ lowered[Len(lowered)].op = "SW"
          /\ Cardinality(OpIdx(emitter, "store_pc")) = 1
          /\ LET w == LastOp(emitter, "store_pc")
             IN /\ emitter[w - 1] = [op |-> "movi", reg |-> r14, imm |-> 4 * Len(lowered)]
                /\ emitter[w].reg = r14
                /\ LastOp(emitter, "call") < w
                /\ \A i \in OpIdx(emitter, "jmp_r13") : w < i
          /\ emitter[Len(emitter)].op = "jmp_r13"
    /\ status = "Branch" =>
          /\ lowered[Len(lowered)].op \in {"J", "JAL", "JR", "BNE"}
          /\ emitter[Len(emitter)].op = "jmp_r15"
          /\ Cardinality(OpIdx(emitter, "jmp_r13")) = Cardinality(OpIdx(emitter, "jmp_r15"))

\* a block of at least one open instruction closed by a store has been translated
C11_StoreClosedBlock == status = "InvalidateCache" /\ Len(lowered) >= 2

(***************************************************************************)
(* C12 -- mmu_store_dword(state, vaddr, value), for a vaddr whose physical *)
(* translation p lies in RDRAM, returns with the bytes p .. p+3 holding    *)
(* value in big-endian order and cache_invalidation equal to [p, p+4],     *)
(* whatever interval was pending, and with gpr, pc, interruption and       *)
(* resume_addr as they were.                                               *)
(***************************************************************************)
C12_StoreDwordEffect ==
    (/\ last.op = "mmu_store_dword"
     /\ last.phys # None
     /\ PhysicalMemoryMap_from(TheOne(last.phys)) = "RDRAM") =>
        /\ phase = "bridge"
        /\ \A i \in 0..(WordSize - 1) :
              /\ TheOne(last.phys) + i \in DOMAIN mem
              /\ mem[TheOne(last.phys) + i] = (last.value \div (256 ^ (WordSize - 1 - i))) % 256
        /\ cache_invalidation =
              Some([start |-> TheOne(last.phys), end |-> TheOne(last.phys) + WordSize])
        /\ gpr = last.before.gpr
        /\ pc = last.before.pc
        /\ interruption = last.before.interruption
        /\ resume_addr = last.before.resume_addr

(***************************************************************************)
(* C13 -- insert(slot) of an unbound slot reports no evicted slot while    *)
(* the free set is non-empty, and then returns a register of the free set; *)
(* when the free set is empty it reports as evicted a slot of the map      *)
(* whose borrow index (the time of its most recent get or insert) is the   *)
(* minimum over the map, and returns the register that slot held.          *)
(***************************************************************************)
C13_InsertPolicy ==
    last'.op = "insert" =>
        IF free_regs # {}
        THEN /\ last'.dropped = None
             /\ last'.reg \subseteq free_regs
             /\ last'.reg # None
        ELSE /\ last'.dropped # None
             /\ LET d == TheOne(last'.dropped)
                IN /\ d \in DOMAIN regs
                   /\ \A h \in DOMAIN regs : regs[d].borrow_index <= regs[h].borrow_index
                   /\ last'.reg = Some(regs[d].register)

C13_InsertEvictsLeastRecent == [][C13_InsertPolicy]_vars

\* an insert on an empty free set chose its victim among at least two bound slots
C13_EvictedAmongTwo ==
    /\ last.op = "insert"
    /\ last.dropped # None
    /\ Cardinality(DOMAIN regs) >= 3

(***************************************************************************)
(* C14 -- when exclude_register(r) has returned, r is not in the free set  *)
(* and is bound to no guest slot, so that no later insert can return it,   *)
(* whether r was free, bound or already excluded before the call.          *)
(***************************************************************************)
C14_ExcludedNotFree ==
    last.op = "exclude" =>
        /\ TheOne(last.reg) \notin free_regs
        /\ find_by_host(Alloc, TheOne(last.reg)) = {}

(***************************************************************************)
(* C15: throughout the translation of a block no guest slot is bound to    *)
(* rsi, rsp, rbp, rbx (reserved), r13 (jump helper) or r14, r15 (scratch). *)
(***************************************************************************)
NeverBound == {rsi, rsp, rbp, rbx, r13, r14, r15}

C15_ReservedNeverBound ==
    /\ \A g \in DOMAIN regs : regs[g].register \notin NeverBound
    /\ free_regs \cap NeverBound = {}

\* a guest register is bound after another one was spilled to make room
C15_BoundAfterSpill ==
    /\ DOMAIN regs # {}
    /\ \E i \in DOMAIN emitter : emitter[i].op = "store"
    /\ NeverBound \subseteq RegisterSlice

(***************************************************************************)
(* C16: free(s) of a bound slot s immediately followed by insert(t) of an  *)
(* unbound slot t returns the host register s held, from any allocator     *)
(* state.                                                                  *)
(***************************************************************************)
InsertAfterFree == last.op = "insert" /\ last.after_free # None

C16_InsertReusesFreed == InsertAfterFree => last.reg = last.after_free

\* C16 as the code keeps it: the register s held is re-used when free(s) left
\* it as the only free register; the insert binds it without evicting a guest
C16_InsertReusesOnlyFree ==
    (InsertAfterFree /\ last.free_before = last.after_free)
        => (last.reg = last.after_free /\ last.dropped = None)

\* free released the only free register while another guest stayed bound, and
\* the insert that followed bound a third guest
C16_ReusedWhileOthersBound ==
    /\ InsertAfterFree
    /\ last.free_before = last.after_free
    /\ Cardinality(DOMAIN regs) >= 2

(***************************************************************************)
(* C17: free resets the borrow counter to zero exactly when the map has no *)
(* bindings after the call and never while a binding remains; the live     *)
(* bindings carry pairwise distinct borrow indices, each smaller than the  *)
(* counter.                                                                *)
(***************************************************************************)
DistinctBelowCounter ==
    /\ \A g \in DOMAIN regs : regs[g].borrow_index < borrow_index
    /\ \A g, h \in DOMAIN regs :
          g # h => regs[g].borrow_index # regs[h].borrow_index

FreeResetsWhenEmpty ==
    /\ last'.op = "free" =>
          borrow_index' = IF DOMAIN regs' = {} THEN 0 ELSE borrow_index
    /\ DOMAIN regs' # {} => borrow_index' >= borrow_index

C17_BorrowCounter == [][FreeResetsWhenEmpty /\ DistinctBelowCounter']_vars

\* free released one binding and left another, the counter kept
C17_FreedWithBindingLeft ==
    /\ last.op = "free"
    /\ last.reg # None
    /\ DOMAIN regs # {}
    /\ borrow_index >= 2

(***************************************************************************)
(* C18: at the emitted call instruction the i-th argument register holds   *)
(* the value the i-th source operand had before the wrap_call sequence     *)
(* began, for every argument list of registers and immediates, permuted,   *)
(* cyclic or repeated argument registers included.                         *)
(***************************************************************************)
OperandValue(arg) == IF arg.kind = "reg" THEN InitialHost[arg.reg] ELSE arg.val

C18_ArgumentsArrive ==
    host.at_call # None =>
        \A i \in DOMAIN last.args :
            TheOne(host.at_call)[ARGS_REGS[i]] = OperandValue(last.args[i])

\* the call was reached for a list that swaps rdi and rsi
C18_SwappedPairCalled ==
    /\ host.at_call # None
    /\ Len(last.args) >= 2
    /\ last.args[1] = [kind |-> "reg", reg |-> rsi]
    /\ last.args[2] = [kind |-> "reg", reg |-> rdi]

(***************************************************************************)
(* C19: from every 8-byte-aligned rsp, rsp is a multiple of 16 at the call *)
(* and, the callee preserving rsp and rbx, the sequence ends with rsp, rbx *)
(* and rsi equal to their values at its start.                             *)
(***************************************************************************)
CallDone == host.ip > Len(emitter)

C19_AlignedAndRestored ==
    /\ host.at_call # None => TheOne(host.at_call)[rsp] % 16 = 0
    /\ CallDone =>
          /\ host.reg[rsp] = last.rsp
          /\ host.reg[rbx] = InitialHost[rbx]
          /\ host.reg[rsi] = InitialHost[rsi]

\* the sequence ended and the alignment had moved rsp before the call
C19_RealignedAndDone ==
    /\ CallDone
    /\ host.at_call # None
    /\ TheOne(host.at_call)[rsp] % 256 # TheOne(host.at_call)[rbx] % 256

(***************************************************************************)
(* C20: at every suspension the value stored in state.resume_addr is the   *)
(* host address of the first instruction after the suspending jmp r13: the *)
(* displacement handed to get_rip_value equals the encoded length of the   *)
(* instructions between the helper's return address and the end of the jmp.*)
(***************************************************************************)
RipCalls ==
    {c \in DOMAIN emitter :
        emitter[c].op = "call" /\ emitter[c].function = "get_rip_value"}

\* the first jmp r13 after position c
SuspendingJmp(c) ==
    CHOOSE j \in (c + 1)..Len(emitter) :
        /\ emitter[j].op = "jmp_r13"
        /\ \A k \in (c + 1)..(j - 1) : emitter[k].op # "jmp_r13"

C20_ResumeAfterJmp ==
    \A c \in RipCalls :
        /\ emitter[c - 2].op = "movi" /\ emitter[c - 2].reg = rdi
        /\ emitter[c + 1].op = "set_resume_addr" /\ emitter[c + 1].reg = rax
        /\ get_rip_value(0, emitter[c - 2].imm) = EndOffset(emitter, c + 1, SuspendingJmp(c))

\* a block that ends in a branch was translated: it holds a suspension
C20_SuspensionEmitted == status = "Branch" /\ RipCalls # {}

(***************************************************************************)
(* C21: for every guest virtual address, those outside KSEG0/KSEG1 and     *)
(* those whose physical translation is unmapped included, the memory       *)
(* thunks return normally; on such an address a read returns 0 and a store *)
(* changes no guest memory.                                                *)
(***************************************************************************)
ThunkCalled == last.op \in {"mmu_read", "mmu_store_dword"}

Unmapped(call) ==
    \/ call.phys = None
    \/ PhysicalMemoryMap_from(TheOne(call.phys)) # "RDRAM"

C21_ThunksNeverPanic ==
    ThunkCalled =>
        /\ phase = "bridge"
        /\ (Unmapped(last) /\ last.op = "mmu_read") =>
              \A i \in DOMAIN last.value : last.value[i] = 0
        /\ (Unmapped(last) /\ last.op = "mmu_store_dword") => ~last.wrote

(***************************************************************************)
(* C22: running the lowering of LUI rt, hi followed by ORI rt, rt, lo      *)
(* leaves gpr[rt] = (hi << 16) | lo, and in general ORI rt, rs, imm leaves *)
(* gpr[rt] = gpr[rs] | imm, also when rt and rs are the same register.     *)
(***************************************************************************)
\* a block of at most two instructions that ends in an ORI, run to its end
OriBlockRun ==
    /\ gpr # <<>>
    /\ Straight(lowered)
    /\ Len(lowered) \in 1..2
    /\ lowered[Len(lowered)].op = "ORI"

C22_OriAsInterpreted == OriBlockRun => gpr = Interpret(lowered, 1, InitialGpr)

(***************************************************************************)
(* C23: for a JAL located at guest address a, once its block has suspended *)
(* gpr[31] in the state struct equals a + 8, wherever the JAL sits inside  *)
(* its block.  The block starts at address 0, so the JAL that closes a     *)
(* block of n instructions is at 4 * (n - 1).                              *)
(***************************************************************************)
JalBlockRun == gpr # <<>> /\ JalEnded(lowered)

JalAddress == 4 * (Len(lowered) - 1)

C23_LinkIsJalPlus8 == JalBlockRun => gpr[31] = JalAddress + 8

(***************************************************************************)
(* The jump target of J and JAL (instructions.rs emit_j, emit_jal).  A     *)
(* 64-bit value is the tuple <<w3, w2, w1, w0>> of its 16-bit limbs, most  *)
(* significant first.                                                      *)
(***************************************************************************)
\* self.pc & 0xf000_0000, the immediate of `mov r15, imm64`
PcMask(p) == <<0, 0, p[3] - (p[3] % 4096), 0>>

\* `or r15d, imm32`: a 32-bit destination clears bits 32..63 of the register
or_r15d(w, imm) ==
    <<0, 0, BitOr(w[3], (imm \div 65536) % 65536), BitOr(w[4], imm % 65536)>>

\* the value r15 holds when emit_interruption stores it as PrepareJump's payload
jump_target(self_pc, target) == or_r15d(PcMask(self_pc), target * 4)

\* JumpType::new: the target field as the decoder keeps it (mask 0x1ff_ffff)
JumpType_new(field) == field % 33554432

\* values of Compiler.pc and of the 26-bit target field the jumps are lowered with
JumpPcs == {<<w3, w2, w1, w0>> : w3 \in {0, 65535}, w2 \in {0, 65535},
                                 w1 \in {32768, 41251, 4095}, w0 \in {4, 65532}}
JumpTargets == {0, 64, 16385, 67108863}

InitJump ==
    /\ regs = <<>> /\ free_regs = {} /\ borrow_index = 0 /\ last = <<>>
    /\ CompIdle
    /\ DispIdle
    /\ EmitterIdle
    /\ CellIdle
    /\ jump \in {[op |-> "none", pc |-> p, target |-> T, t |-> None]
                    : p \in JumpPcs, T \in JumpTargets}

EmitJ ==
    /\ jump.op = "none"
    /\ jump' = [jump EXCEPT !.op = "J", !.t = Some(jump_target(jump.pc, JumpType_new(jump.target)))]
    /\ UNCHANGED <<allocVars, compVars, dispVars, emitVars, cellVars>>

EmitJal ==
    /\ jump.op = "none"
    /\ jump' = [jump EXCEPT !.op = "JAL", !.t = Some(jump_target(jump.pc, JumpType_new(jump.target)))]
    /\ UNCHANGED <<allocVars, compVars, dispVars, emitVars, cellVars>>

NextJump == EmitJ \/ EmitJal

SpecJump == InitJump /\ [][NextJump]_vars

(***************************************************************************)
(* C24: J and JAL lowered with pc value p and target field T end their     *)
(* block with PrepareJump(t), t = (p & 0xFFFF_FFFF_F000_0000) | (T << 2):  *)
(* the upper 36 bits of the 64-bit pc are preserved and the low 28 bits    *)
(* are replaced, for every 64-bit p.                                       *)
(***************************************************************************)
JumpLowered == jump # <<>> /\ jump.op \in {"J", "JAL"}

Upper36(w) == <<w[1], w[2], w[3] \div 4096>>
Low28(w) == (w[3] % 4096) * 65536 + w[4]

C24_TargetKeepsUpper36 ==
    JumpLowered =>
        /\ Upper36(TheOne(jump.t)) = Upper36(jump.pc)
        /\ Low28(TheOne(jump.t)) = jump.target * 4

(***************************************************************************)
(* C25: for every budget c > 0, translating a block terminates after       *)
(* lowering k instructions with 1 <= k <= ceil(c / 5); the block length    *)
(* reported to the cache is 4 * k guest bytes, the final translator pc     *)
(* minus the initial one, and is greater than 0.                           *)
(***************************************************************************)
Translated == status # "Continue"

\* k <= ceil(c / 5), for k >= 1
WithinBudget == lowered # <<>> => (Len(lowered) - 1) * 5 < cycles

\* `len` of Compiler::compile: self.pc - initial_pc
compile_len == cpc - 0

LengthReported ==
    Translated => /\ Len(lowered) >= 1
                  /\ compile_len = 4 * Len(lowered)
                  /\ compile_len > 0

\* the loop is never stuck: an unfinished translation is inside its budget and lowers
\* one more instruction, so with WithinBudget it ends after at most ceil(c / 5) of them
LoopAdvances ==
    ~Translated => /\ Len(lowered) * 5 < cycles
                   /\ compile_block_step(Comp, [op |-> "LUI", rt |-> 1, imm |-> 17], cpc,
                                         Len(lowered) * 5, cycles) # {}

Registers16 == 0..15

Bit(b) == IF b THEN 1 ELSE 0

\* Emitter::emit_dword of `v as u32`: four bytes, least significant first
emit_dword(v) ==
    <<(IF v < 0 THEN v + 2147483647 + 1 ELSE v) % 256,
      ((IF v < 0 THEN v + 2147483647 + 1 ELSE v) \div 256) % 256,
      ((IF v < 0 THEN v + 2147483647 + 1 ELSE v) \div 65536) % 256,
      ((IF v < 0 THEN v + 2147483647 + 1 ELSE v) \div 16777216) + 128 * Bit(v < 0)>>

\* Emitter::emit_byte of `v as i8 as u8`
emit_disp8(v) == <<v % 256>>

\* `(a << 3)` on a u8
Shl3(a) == (a * 8) % 256

\* a mov between registers with the ModR/M fields exchanged
emit_mov_reg_reg_exchanged(dst, src) ==
    <<BitOr(72, BitOr(4 * Bit(src >= r8), Bit(dst >= r8))),
      137,
      BitOr(192, BitOr(Shl3(dst % 8), src % 8))>>

\* emit_mov, (Register(dst), Register(src))
emit_mov_reg_reg(dst, src) ==
    <<BitOr(72, BitOr(4 * Bit(src >= r8), Bit(dst >= r8))),
      137,
      BitOr(192, BitOr(Shl3(src % 8), dst % 8))>>

\* __disp__ of the indirect forms
SignedDisp(neg, disp) == IF neg THEN 0 - disp ELSE disp

DispAbs(d) == IF d < 0 THEN 0 - d ELSE d

\* __mode__ of the load form
load_mode(s, d) ==
    Bit(d # 0 \/ s = rbp) * (IF DispAbs(d) > 127 THEN 2 ELSE 1)

\* emit_mov, (Register(dst), Indirect(src, disp)): mov dst, [src +/- disp]
emit_mov_reg_ind(dst, src, neg, disp) ==
    <<BitOr(72, BitOr(4 * Bit(dst >= r8), Bit(src >= r8))),
      139,
      BitOr(load_mode(src % 8, SignedDisp(neg, disp)) * 64, BitOr(Shl3(dst % 8), src % 8))>>
    \o (IF src % 8 = rsp THEN <<36>> ELSE <<>>)
    \o (IF load_mode(src % 8, SignedDisp(neg, disp)) = 0 THEN <<>>
        ELSE IF DispAbs(SignedDisp(neg, disp)) > 127
             THEN emit_dword(SignedDisp(neg, disp))
             ELSE emit_disp8(SignedDisp(neg, disp)))

\* __mode__ of the store form
store_mode(disp) == Bit(disp # 0) * 2

\* emit_mov, (Indirect(dst, disp), Register(src)): mov [dst +/- disp], src
emit_mov_ind_reg(dst, neg, disp, src) ==
    <<BitOr(72, BitOr(4 * Bit(src >= r8), Bit(dst >= r8))),
      137,
      BitOr(store_mode(disp) * 64, BitOr(Shl3(src % 8), dst % 8))>>
    \o (IF dst = rsp THEN <<36>> ELSE <<>>)
    \o (IF store_mode(disp) = 0 THEN <<>> ELSE emit_dword(SignedDisp(neg, disp)))

\* Operation as u8
Operation_id(op) == CASE op = "add" -> 0 [] op = "or" -> 1 [] op = "sub" -> 5

\* emit_op with a register source
emit_op_reg(op, dst, src) ==
    <<BitOr(72, Bit(dst >= r8)),
      BitOr(Shl3(Operation_id(op)), 1),
      BitOr(192, BitOr(Shl3(src), dst))>>

\* emit_op with an immediate source
emit_op_imm(op, dst, imm) ==
    <<BitOr(72, Bit(dst >= r8)),
      IF dst = rax THEN BitOr(Shl3(Operation_id(op)), 5) ELSE 129>>
    \o emit_dword(imm)

(***************************************************************************)
(* SpecEncode: one instruction is emitted into a new Emitter.              *)
(***************************************************************************)
Operations == {"add", "or", "sub"}
\* displacement values written after the sign of an indirect operand
Displacements == {0, 1, 112, 127, 128, 129, 1193046}
Immediates == {1, 2018915346, 0 - 1}

InitEncode ==
    /\ regs = <<>> /\ free_regs = {} /\ borrow_index = 0 /\ last = <<>>
    /\ CompIdle
    /\ DispIdle
    /\ JumpIdle
    /\ EmitterIdle
    /\ CellIdle

Emit1(inst, bytes) ==
    /\ asm = <<>>
    /\ asm' = inst
    /\ buffer' = buffer \o bytes
    /\ UNCHANGED <<allocVars, compVars, dispVars, jump, cellVars>>

MovRegReg(dst, src) ==
    /\ asm = <<>>
    /\ Emit1([form |-> "mov_reg_reg", dst |-> dst, src |-> src], emit_mov_reg_reg(dst, src))

MovRegInd(dst, src, neg, disp) ==
    /\ asm = <<>>
    /\ Emit1([form |-> "mov_reg_ind", dst |-> dst, base |-> src,
              disp |-> SignedDisp(neg, disp)],
             emit_mov_reg_ind(dst, src, neg, disp))

MovIndReg(dst, neg, disp, src) ==
    /\ asm = <<>>
    /\ Emit1([form |-> "mov_ind_reg", base |-> dst, disp |-> SignedDisp(neg, disp),
              src |-> src],
             emit_mov_ind_reg(dst, neg, disp, src))

OpReg(op, dst, src) ==
    /\ asm = <<>>
    /\ Emit1([form |-> "op_reg", op |-> op, dst |-> dst, src |-> src],
             emit_op_reg(op, dst, src))

OpImm(op, dst, imm) ==
    /\ asm = <<>>
    /\ Emit1([form |-> "op_imm", op |-> op, dst |-> dst, imm |-> imm],
             emit_op_imm(op, dst, imm))

NextEncode ==
    \/ \E dst \in Registers16 : \E src \in Registers16 : MovRegReg(dst, src)
    \/ \E dst \in Registers16 : \E src \in Registers16 :
          \E neg \in BOOLEAN : \E disp \in Displacements : MovRegInd(dst, src, neg, disp)
    \/ \E dst \in Registers16 : \E src \in Registers16 :
          \E neg \in BOOLEAN : \E disp \in Displacements : MovIndReg(dst, neg, disp, src)
    \/ \E op \in Operations : \E dst \in Registers16 : \E src \in Registers16 :
          OpReg(op, dst, src)
    \/ \E op \in Operations : \E dst \in Registers16 : \E imm \in Immediates :
          OpImm(op, dst, imm)

SpecEncode == InitEncode /\ [][NextEncode]_vars

(***************************************************************************)
(* The x86-64 encoding rules the emitted bytes are compared with.           *)
(***************************************************************************)
\* REX with W set, R for the register in the reg field, B for the one in r/m
RexW(reg, rm) == 72 + 4 * Bit(reg >= 8) + Bit(rm >= 8)

ModRM(mod, reg, rm) == mod * 64 + (reg % 8) * 8 + (rm % 8)

OpCodeOf(op) == CASE op = "add" -> 0 [] op = "or" -> 1 [] op = "sub" -> 5

FitsI8(d) == d >= 0 - 128 /\ d <= 127

\* imm32 and disp32 in little-endian order, from the two's complement value
Le32(v) ==
    LET u0 == IF v < 0 THEN (v + 2147483647) + 1 ELSE v
    IN <<u0 % 256, (u0 \div 256) % 256, (u0 \div 65536) % 256,
         (u0 \div 16777216) + (IF v < 0 THEN 128 ELSE 0)>>

(***************************************************************************)
(* C26: for add, or and sub with any destination among the 16 registers    *)
(* and a source that is a register or a 32-bit immediate, the emitted      *)
(* bytes equal the reference encoding: REX with W set and R/B set for      *)
(* register numbers >= 8, the opcode, a ModR/M byte with mod = 11 whose    *)
(* reg and rm fields hold the register numbers modulo 8 (for an immediate: *)
(* opcode 0x81 with the operation in the reg field, or the short rax       *)
(* form), then the little-endian imm32.                                    *)
(***************************************************************************)
OpEmitted == asm # <<>> /\ asm.form \in {"op_reg", "op_imm"}

RefOp(inst) ==
    IF inst.form = "op_reg"
    THEN <<RexW(inst.src, inst.dst), OpCodeOf(inst.op) * 8 + 1,
           ModRM(3, inst.src, inst.dst)>>
    ELSE IF inst.dst = 0
    THEN <<RexW(0, 0), OpCodeOf(inst.op) * 8 + 5>> \o Le32(inst.imm)
    ELSE <<RexW(0, inst.dst), 129, ModRM(3, OpCodeOf(inst.op), inst.dst)>>
         \o Le32(inst.imm)

C26_OpAsReference == OpEmitted => buffer = RefOp(asm)

\* mod of an indirect operand with base register base and displacement d
RefMod(base, d) ==
    IF d = 0 /\ base % 8 # 5 THEN 0
    ELSE IF FitsI8(d) THEN 1
    ELSE 2

\* the bytes after ModR/M: SIB for a base whose low three bits are 100, then the
\* displacement in the width mod announces
RefTail(base, d) ==
    (IF base % 8 = 4 THEN <<36>> ELSE <<>>)
    \o (CASE RefMod(base, d) = 0 -> <<>>
          [] RefMod(base, d) = 1 -> <<(d + 256) % 256>>
          [] OTHER -> Le32(d))

(***************************************************************************)
(* C27: for the store form mov [base +/- disp], src over all 16 x 16       *)
(* register pairs and every 32-bit displacement the emitted bytes follow   *)
(* the addressing rules: mod = 00 with no displacement only when disp = 0  *)
(* and base is not rbp/r13; mod = 01 with a one-byte displacement whenever *)
(* the displacement fits in a signed 8 bits (a zero disp8 for base         *)
(* rbp/r13 included); mod = 10 with a four-byte displacement otherwise;    *)
(* and a SIB byte 0x24 follows ModR/M exactly when the base's low three    *)
(* bits are 100 (rsp or r12).                                              *)
(***************************************************************************)
StoreEmitted == asm # <<>> /\ asm.form = "mov_ind_reg"

RefStore(inst) ==
    <<RexW(inst.src, inst.base), 137, ModRM(RefMod(inst.base, inst.disp), inst.src, inst.base)>>
    \o RefTail(inst.base, inst.disp)

C27_StoreAddressing == StoreEmitted => buffer = RefStore(asm)

(***************************************************************************)
(* C28: for the load form mov dst, [base +/- disp] over all 16 x 16        *)
(* register pairs and every 32-bit displacement, the displacement is       *)
(* emitted as one byte exactly when it fits in a signed 8 bits             *)
(* (-128 .. 127) and as four bytes otherwise, with the ModR/M mod field    *)
(* (00, 01, 10) matching, a zero disp8 for base rbp/r13 with no            *)
(* displacement, and a SIB byte 0x24 exactly when the base is rsp or r12.  *)
(***************************************************************************)
LoadEmitted == asm # <<>> /\ asm.form = "mov_reg_ind"

RefLoad(inst) ==
    <<RexW(inst.dst, inst.base), 139, ModRM(RefMod(inst.base, inst.disp), inst.dst, inst.base)>>
    \o RefTail(inst.base, inst.disp)

C28_LoadAddressing == LoadEmitted => buffer = RefLoad(asm)

\* the load form on the displacements whose absolute value decides as the signed range
\* does: every one but -128
C28_LoadAddressingBut128 ==
    (LoadEmitted /\ asm.disp # 0 - 128) => buffer = RefLoad(asm)

(***************************************************************************)
(* C29: for every pair (dst, src) of the 16 general-purpose registers,     *)
(* mov dst, src emits exactly three bytes: REX = 0x48 | (src >= 8) << 2 |  *)
(* (dst >= 8), opcode 0x89, ModR/M = 0xC0 | (src mod 8) << 3 | (dst mod 8).*)
(***************************************************************************)
MovEmitted == asm # <<>> /\ asm.form = "mov_reg_reg"

C29_MovRegRegBytes ==
    MovEmitted =>
        /\ Len(buffer) = 3
        /\ buffer[1] = RexW(asm.src, asm.dst)
        /\ buffer[2] = 137
        /\ buffer[3] = ModRM(3, asm.src, asm.dst)

\* mov rcx, r8 is 4c 89 c1
C29_MovRcxR8 ==
    /\ MovEmitted /\ asm.dst = 1 /\ asm.src = 8
    /\ buffer = <<76, 137, 193>>

(***************************************************************************)
(* ArenaCell (wicked64-arena/src/cell.rs): the borrow counter of one cell  *)
(* and the guards handed out for it.  The guards alive are the values of   *)
(* the variables 1 .. MaxGuards of the program using the cell: "none",     *)
(* "ref" (an ArenaRef) or "mut" (an ArenaRefMut).                          *)
(***************************************************************************)
\* variables that can hold a guard
MaxGuards == 4

GuardVars == 1..MaxGuards

\* isize::wrapping_add and wrapping_sub; the counter stays within MaxGuards of 0,
\* out of reach of the wrap at 2^63
wrapping_add(a, b) == a + b
wrapping_sub(a, b) == a - b

\* ArenaCell::reference: the result and the counter it leaves
reference(b) ==
    IF wrapping_add(b, 1) > 0
    THEN [ok |-> TRUE, borrow |-> wrapping_add(b, 1)]
    ELSE [ok |-> FALSE, borrow |-> b]

\* a reference_mut that only refuses a cell borrowed as mutable
reference_mut_shared(b) ==
    IF b >= 0 THEN [ok |-> TRUE, borrow |-> 0 - 1] ELSE [ok |-> FALSE, borrow |-> b]

\* ArenaCell::reference_mut
reference_mut(b) ==
    IF b = 0 THEN [ok |-> TRUE, borrow |-> 0 - 1] ELSE [ok |-> FALSE, borrow |-> b]

InitCell ==
    /\ regs = <<>> /\ free_regs = {} /\ borrow_index = 0
    /\ last = [op |-> "new"]
    /\ CompIdle
    /\ DispIdle
    /\ JumpIdle
    /\ EmitterIdle
    /\ borrow = 0
    /\ guards = [v \in GuardVars |-> "none"]

CellRest == <<regs, free_regs, borrow_index, compVars, dispVars, jump, emitVars>>

\* let v = cell.try_borrow()
TryBorrow(v) ==
    /\ guards[v] = "none"
    /\ borrow' = reference(borrow).borrow
    /\ guards' = IF reference(borrow).ok THEN [guards EXCEPT ![v] = "ref"] ELSE guards
    /\ last' = [op |-> "try_borrow", ok |-> reference(borrow).ok, alive |-> guards]
    /\ UNCHANGED CellRest

\* let v = cell.try_borrow_mut()
TryBorrowMut(v) ==
    /\ guards[v] = "none"
    /\ borrow' = reference_mut(borrow).borrow
    /\ guards' = IF reference_mut(borrow).ok THEN [guards EXCEPT ![v] = "mut"] ELSE guards
    /\ last' = [op |-> "try_borrow_mut", ok |-> reference_mut(borrow).ok, alive |-> guards]
    /\ UNCHANGED CellRest

\* let v = ArenaRef::clone(&u)
CloneRef(u, v) ==
    /\ guards[u] = "ref"
    /\ guards[v] = "none"
    /\ borrow' = wrapping_add(borrow, 1)
    /\ guards' = [guards EXCEPT ![v] = "ref"]
    /\ last' = [op |-> "clone", ok |-> TRUE, alive |-> guards]
    /\ UNCHANGED CellRest

\* drop(v) of an ArenaRef
DropRef(v) ==
    /\ guards[v] = "ref"
    /\ borrow' = wrapping_sub(borrow, 1)
    /\ guards' = [guards EXCEPT ![v] = "none"]
    /\ last' = [op |-> "drop", ok |-> TRUE, alive |-> guards]
    /\ UNCHANGED CellRest

\* drop(v) of an ArenaRefMut
DropRefMut(v) ==
    /\ guards[v] = "mut"
    /\ borrow' = wrapping_add(borrow, 1)
    /\ guards' = [guards EXCEPT ![v] = "none"]
    /\ last' = [op |-> "drop_mut", ok |-> TRUE, alive |-> guards]
    /\ UNCHANGED CellRest

NextCell ==
    \/ \E v \in GuardVars : TryBorrow(v)
    \/ \E v \in GuardVars : TryBorrowMut(v)
    \/ \E u \in GuardVars : \E v \in GuardVars : CloneRef(u, v)
    \/ \E v \in GuardVars : DropRef(v)
    \/ \E v \in GuardVars : DropRefMut(v)

SpecCell == InitCell /\ [][NextCell]_vars

(***************************************************************************)
(* C30: for a single ArenaCell under any sequence of try_borrow,           *)
(* try_borrow_mut, ArenaRef::clone and guard drops: try_borrow_mut         *)
(* succeeds if and only if no guard of either kind is alive, and           *)
(* try_borrow succeeds if and only if no mutable guard is alive; so a      *)
(* mutable guard never coexists with any other guard, and once all guards  *)
(* are dropped the borrow counter is back at 0.                            *)
(***************************************************************************)
Alive(g, kind) == {v \in DOMAIN g : g[v] = kind}

BorrowMutIffNoGuard ==
    last.op = "try_borrow_mut" =>
        (last.ok <=> Alive(last.alive, "ref") \cup Alive(last.alive, "mut") = {})

BorrowIffNoMutGuard ==
    last.op = "try_borrow" => (last.ok <=> Alive(last.alive, "mut") = {})

MutGuardAlone ==
    Alive(guards, "mut") # {} =>
        Cardinality(Alive(guards, "mut")) = 1 /\ Alive(guards, "ref") = {}

CounterBackAtZero ==
    (Alive(guards, "ref") \cup Alive(guards, "mut") = {}) => borrow = 0

C30_BorrowDiscipline ==
    BorrowMutIffNoGuard /\ BorrowIffNoMutGuard /\ MutGuardAlone /\ CounterBackAtZero

\* with two shared guards alive a try_borrow_mut has just been refused
C30_MutRefusedWhileShared ==
    /\ last.op = "try_borrow_mut" /\ ~last.ok
    /\ Cardinality(Alive(guards, "ref")) = 2
    /\ borrow = 2

(***************************************************************************)
(* C31: every block execution that ends without taking a branch leaves the *)
(* guest pc equal to the address of the first guest instruction the block  *)
(* did not cover (block start + block length), both when the block ended   *)
(* at a store and when it ended because the budget ran out.  The block     *)
(* starts at address 0, where the guest pc stands when it is entered.      *)
(***************************************************************************)
FellThrough == gpr # <<>> /\ status \in {"InvalidateCache", "Budget"}

C31_PcPastBlock == FellThrough => RunBlock(emitter).pc = 0 + compile_len

\* the same for the blocks that ended at a store
C31_PcPastStoreBlock ==
    (gpr # <<>> /\ status = "InvalidateCache") => RunBlock(emitter).pc = 0 + compile_len

(***************************************************************************)
(* C32: whenever the engine resumes a suspended block at resume_addr, the  *)
(* block that contains resume_addr is still in the cache: no dispatch      *)
(* iteration starts with both a PrepareJump interruption and a pending     *)
(* cache invalidation, and nothing removes that block between its          *)
(* suspension and the resume.                                              *)
(***************************************************************************)
Resuming == phase = "run" /\ hist.mode = "resume"

NoJumpWithInvalidation == phase = "run" => ~(hist.jump # None /\ hist.pending # None)

SuspendedStillCached == Resuming => hist.via \subseteq Live(cache)

C32_ResumeIntoCachedBlock == NoJumpWithInvalidation /\ SuspendedStillCached

(***************************************************************************)
(* Cache::get_or_compile (jit/cache.rs): the lookup-or-build of the cache  *)
(* that also drains the pending invalidation.  A cache entry is            *)
(* [ptr, start, len] as above; the length of a block that is built is an   *)
(* input, it depends on the guest code at addr.                            *)
(***************************************************************************)
\* C is Cache.blocks, inv is state.cache_invalidation, built the block compiled for
\* addr when the entry is vacant
get_or_compile(C, inv, addr, built) ==
    [block |-> IF addr \in DOMAIN C THEN C[addr] ELSE built,
     built |-> addr \notin DOMAIN C,
     cache |-> IF inv # None
               THEN invalidate_range([k \in (DOMAIN C) \cup {addr} |->
                                        IF k \in DOMAIN C THEN C[k] ELSE built],
                                     TheOne(inv))
               ELSE [k \in (DOMAIN C) \cup {addr} |-> IF k \in DOMAIN C THEN C[k] ELSE built],
     cache_invalidation |-> None]

BlockLens == {4, 8}

InitCache ==
    /\ UnitIdle
    /\ regs = <<>> /\ free_regs = {} /\ borrow_index = 0
    /\ last = [op |-> "new"]
    /\ CompIdle
    /\ mem = <<>> /\ pc = 0 /\ interruption = None /\ resume_addr = 0
    /\ jump_table = <<>> /\ phase = "idle" /\ hist = <<>>
    /\ cache_invalidation = None
    /\ cache = EmptyMap
    /\ blocks = <<>>

CacheRest == <<unitVars, regs, free_regs, borrow_index, compVars, mem, pc, interruption,
               resume_addr, jump_table, phase, hist>>

\* a guest store posts its interval (bridge.rs mmu_store)
CacheStore(phys_addr) ==
    /\ cache_invalidation' = Some([start |-> phys_addr, end |-> phys_addr + WordSize])
    /\ last' = [op |-> "store"]
    /\ UNCHANGED <<cache, blocks, CacheRest>>

CacheGetOrCompile(addr, len) ==
    /\ Len(blocks) < MaxBlocks
    /\ \E r \in {get_or_compile(cache, cache_invalidation, addr,
                                 [ptr |-> Len(blocks) + 1, start |-> addr, len |-> len])} :
          /\ cache' = r.cache
          /\ cache_invalidation' = r.cache_invalidation
          /\ blocks' = IF r.built THEN Append(blocks, [start |-> addr, len |-> len])
                       ELSE blocks
          /\ last' = [op |-> "get_or_compile", addr |-> addr, ret |-> r.block,
                      pending |-> cache_invalidation, before |-> cache]
    /\ UNCHANGED CacheRest

NextCache ==
    \/ \E p \in StoreAddrs : CacheStore(p)
    \/ \E a \in StoreAddrs : \E len \in BlockLens : CacheGetOrCompile(a, len)

SpecCache == InitCache /\ [][NextCache]_vars

(***************************************************************************)
(* C33: whenever Cache::get_or_compile(addr) returns a block, that block   *)
(* is stored in the cache under addr at the moment of return and           *)
(* cache_invalidation is None; this holds also when an invalidation        *)
(* interval overlapping the block at addr was pending at the time of the   *)
(* call, in which case the block returned is not the one that was cached   *)
(* before the call.                                                        *)
(***************************************************************************)
Returned == last.op = "get_or_compile"

\* the interval pending at the call overlapped the block cached under addr
OverlapPending ==
    /\ last.pending # None
    /\ last.addr \in DOMAIN last.before
    /\ BytesIntersect(last.before[last.addr], TheOne(last.pending))

ReturnedIsCached ==
    Returned => /\ last.addr \in DOMAIN cache
                /\ cache[last.addr] = last.ret
                /\ cache_invalidation = None

C33_ReturnedBlockCached ==
    /\ ReturnedIsCached
    /\ (Returned /\ OverlapPending) => last.ret # last.before[last.addr]

\* the same without a pending interval
C33_ReturnedCachedWhenNonePending ==
    (Returned /\ last.pending = None) =>
        /\ last.addr \in DOMAIN cache
        /\ cache[last.addr] = last.ret
        /\ cache_invalidation = None

(***************************************************************************)
(* SpecMirror: the loop of N64::cycle on guest code that jumps through a   *)
(* register.  KSEG0 and KSEG1 map the same physical memory, and a JR       *)
(* reaches either of them.  The code has no store, so no block is ever     *)
(* dropped and no pointer dangles.                                         *)
(***************************************************************************)
MirrorInsts == {LUI, JR, J(0)}

InitMirror ==
    /\ UnitIdle
    /\ regs = <<>> /\ free_regs = {} /\ borrow_index = 0 /\ last = <<>>
    /\ CompIdle
    /\ mem \in [0..(MemWords - 1) -> MirrorInsts]
    /\ pc \in JrTargets
    /\ cache_invalidation = None
    /\ interruption = None
    /\ resume_addr = 0
    /\ cache = EmptyMap
    /\ jump_table = EmptyMap
    /\ blocks = <<>>
    /\ phase = "engine"
    /\ hist = [pending |-> None, before |-> EmptyMap, after |-> EmptyMap, removed |-> {},
               jump |-> None, mode |-> "none", enter |-> 0, via |-> {}, lookups |-> <<>>,
               stores |-> 0, lost |-> FALSE, handled |-> 0,
               builds |-> [k \in PhysAddrs |-> 0]]

NextMirror ==
    \/ Dispatch
    \/ Run

SpecMirror == InitMirror /\ [][NextMirror]_vars

(***************************************************************************)
(* C34: whenever the engine executes or resumes into a cached block for    *)
(* guest pc v, that block was compiled for virtual pc v: the virtual pc    *)
(* recorded in the block, and with it the pc-derived constants of its      *)
(* code, equal v.  This holds also when two virtual addresses, the KSEG0   *)
(* and KSEG1 mirrors, translate to the same physical cache key.            *)
(***************************************************************************)
\* the engine has entered the block blocks[hist.enter] for guest pc
EnteredBlock == phase = "run" /\ hist.enter \in DOMAIN blocks

C34_BlockCompiledForPc ==
    EnteredBlock =>
        /\ blocks[hist.enter].virtual_pc = pc
        /\ blocks[hist.enter].code = Compiler_compile(mem, pc).code

\* the same for a block entered for the virtual pc it was first built for
C34_FreshBlockCompiledForPc ==
    (EnteredBlock /\ \E i \in DOMAIN hist.lookups : ~hist.lookups[i].hit) =>
        blocks[hist.enter].virtual_pc = pc

(***************************************************************************)
(* C35: the comparison emitted for BNE reads the guest values of rs and rt *)
(* as they stood at the BNE, whichever host registers they are bound to,   *)
(* including a callee-saved register that the block pushes on first use    *)
(* and pops in its register-restore sequence: the taken path runs exactly  *)
(* when gpr[rs] differs from gpr[rt].                                      *)
(***************************************************************************)
BneRun == gpr # <<>> /\ BneEnded(lowered)

TheBne == lowered[Len(lowered)]

\* the guest registers as they stood at the BNE
AtBne == Interpret(SubSeq(lowered, 1, Len(lowered) - 1), 1, host.gpr0)

\* the payload of PrepareJump is the branch target and not the next instruction
BneTaken == ~host.zf /\ host.reg[r15] = <<"pc_plus", cpc, TheBne.imm>>
BneNotTaken == host.zf /\ host.reg[r15] = cpc + 4

C35_BneComparesGuestValues ==
    BneRun => /\ BneTaken \/ BneNotTaken
              /\ BneTaken <=> AtBne[TheBne.rs] # AtBne[TheBne.rt]

\* the same for a BNE that names one register twice
C35_BneSameRegisterFallsThrough ==
    (BneRun /\ TheBne.rs = TheBne.rt) => BneNotTaken

(***************************************************************************)
(* The arithmetic of the lowerings that take a 16-bit immediate            *)
(* (instructions.rs emit_bne, emit_lx, emit_sw, emit_addi, emit_addiu and  *)
(* the SW arm of compiler.rs compile_instruction).  64-bit values are limb *)
(* tuples as above; the immediate is the u16 field of ImmediateType.       *)
(***************************************************************************)
\* a + b on 64 bits, wrapping
Add64(a, b) ==
    <<(a[1] + b[1] + (a[2] + b[2] + (a[3] + b[3] + (a[4] + b[4]) \div 65536) \div 65536)
                      \div 65536) % 65536,
      (a[2] + b[2] + (a[3] + b[3] + (a[4] + b[4]) \div 65536) \div 65536) % 65536,
      (a[3] + b[3] + (a[4] + b[4]) \div 65536) % 65536,
      (a[4] + b[4]) % 65536>>

\* a << 2 on 64 bits
Shl2(a) ==
    <<((a[1] * 4) + (a[2] \div 16384)) % 65536,
      ((a[2] * 4) % 65536) + (a[3] \div 16384),
      ((a[3] * 4) % 65536) + (a[4] \div 16384),
      (a[4] * 4) % 65536>>

\* `imm as i16 as u32 as u64`: sign-extended to 32 bits, then zero-extended
imm_as_i16_u32_u64(imm) == <<0, 0, IF imm >= 32768 THEN 65535 ELSE 0, imm>>

\* `add r14d, rs32`: a 32-bit add whose result is zero-extended into r14
add_r32(a, b) == <<0, 0, (a[3] + b[3] + (a[4] + b[4]) \div 65536) % 65536,
                   (a[4] + b[4]) % 65536>>

\* `movsxd rt, r14d`
movsxd(w) ==
    <<IF w[3] >= 32768 THEN 65535 ELSE 0, IF w[3] >= 32768 THEN 65535 ELSE 0, w[3], w[4]>>

\* emit_bne: the immediates of the two `mov r15, imm64`
bne_target(self_pc, offset) == Add64(self_pc, Shl2(imm_as_i16_u32_u64(offset)))
bne_next(self_pc) == Add64(self_pc, <<0, 0, 0, 4>>)

\* emit_lx and emit_sw: `mov r14, imm; add r14, rs`, r14 goes to the thunk
lx_address(rs, imm) == Add64(imm_as_i16_u32_u64(imm), rs)
sw_address(rs, offset) == Add64(imm_as_i16_u32_u64(offset), rs)
\* the SW arm of compile_instruction: `offset as u16 as u64`
compile_sw_address(rs, offset) == Add64(<<0, 0, 0, offset>>, rs)

addi_value(rs, imm) == movsxd(add_r32(imm_as_i16_u32_u64(imm), rs))
\* emit_addiu ends with `mov rt, r14`
addiu_value(rs, imm) == add_r32(imm_as_i16_u32_u64(imm), rs)

\* values of Compiler.pc and of guest register rs, and immediates
ImmValues == {<<0, 0, 32768, 4096>>, <<65535, 65535, 32768, 4096>>, <<0, 0, 0, 8>>,
              <<0, 0, 32767, 65532>>, <<1, 2, 65535, 65535>>,
              <<65535, 65535, 65535, 65535>>}
Imms16 == {0, 4, 32767, 32768, 65532, 65535}
LoadKinds == {"LB", "LBU", "LH", "LHU", "LW", "LWU"}

InitImmediate ==
    /\ regs = <<>> /\ free_regs = {} /\ borrow_index = 0 /\ last = <<>>
    /\ CompIdle
    /\ DispIdle
    /\ EmitterIdle
    /\ CellIdle
    /\ jump \in {[op |-> "none", val |-> v, imm |-> i, out |-> None]
                    : v \in ImmValues, i \in Imms16}

ImmRest == <<allocVars, compVars, dispVars, emitVars, cellVars>>

EmitBne ==
    /\ jump.op = "none"
    /\ jump' = [jump EXCEPT !.op = "BNE",
                            !.out = Some([taken |-> bne_target(jump.val, jump.imm),
                                          next |-> bne_next(jump.val)])]
    /\ UNCHANGED ImmRest

EmitLx(kind) ==
    /\ jump.op = "none"
    /\ jump' = [jump EXCEPT !.op = kind,
                            !.out = Some([addr |-> lx_address(jump.val, jump.imm)])]
    /\ UNCHANGED ImmRest

EmitSw ==
    /\ jump.op = "none"
    /\ jump' = [jump EXCEPT !.op = "SW",
                            !.out = Some([addr |-> sw_address(jump.val, jump.imm),
                                          via |-> "emit_sw"])]
    /\ UNCHANGED ImmRest

CompileSw ==
    /\ jump.op = "none"
    /\ jump' = [jump EXCEPT !.op = "SW",
                            !.out = Some([addr |-> compile_sw_address(jump.val, jump.imm),
                                          via |-> "compile_instruction"])]
    /\ UNCHANGED ImmRest

EmitAddi ==
    /\ jump.op = "none"
    /\ jump' = [jump EXCEPT !.op = "ADDI",
                            !.out = Some([rt |-> addi_value(jump.val, jump.imm)])]
    /\ UNCHANGED ImmRest

EmitAddiu ==
    /\ jump.op = "none"
    /\ jump' = [jump EXCEPT !.op = "ADDIU",
                            !.out = Some([rt |-> addiu_value(jump.val, jump.imm)])]
    /\ UNCHANGED ImmRest

NextImmediate ==
    \/ EmitBne
    \/ \E kind \in LoadKinds : EmitLx(kind)
    \/ EmitSw
    \/ CompileSw
    \/ EmitAddi
    \/ EmitAddiu

SpecImmediate == InitImmediate /\ [][NextImmediate]_vars

\* sign_extend_64 of a 16-bit value
SignExtend64(imm) ==
    <<IF imm >= 32768 THEN 65535 ELSE 0, IF imm >= 32768 THEN 65535 ELSE 0,
      IF imm >= 32768 THEN 65535 ELSE 0, imm>>

(***************************************************************************)
(* C36: for BNE lowered with translator pc p and any 16-bit off, the       *)
(* PrepareJump payload on the taken path is                                *)
(* p + sign_extend_64(off << 2) mod 2^64, so that a negative offset gives  *)
(* a target below p, and on the not-taken path it is p + 4.                *)
(***************************************************************************)
BneLowered == jump # <<>> /\ jump.op = "BNE"

C36_BneTargets ==
    BneLowered =>
        /\ TheOne(jump.out).taken = Add64(jump.val, Shl2(SignExtend64(jump.imm)))
        /\ TheOne(jump.out).next = Add64(jump.val, <<0, 0, 0, 4>>)

\* the same for the offsets that are not negative, and the not-taken path of all
C36_ForwardBneTargets ==
    BneLowered =>
        /\ jump.imm < 32768 =>
              TheOne(jump.out).taken = Add64(jump.val, Shl2(SignExtend64(jump.imm)))
        /\ TheOne(jump.out).next = Add64(jump.val, <<0, 0, 0, 4>>)

(***************************************************************************)
(* C37: for LB, LBU, LH, LHU, LW, LWU and SW the virtual address handed to *)
(* the memory thunk equals (gpr[rs] + sign_extend_64(imm)) mod 2^64, for   *)
(* every 64-bit rs and every 16-bit imm, negative ones included.           *)
(***************************************************************************)
MemLowered == jump # <<>> /\ jump.op \in LoadKinds \cup {"SW"}

C37_ThunkAddress ==
    MemLowered => TheOne(jump.out).addr = Add64(jump.val, SignExtend64(jump.imm))

\* the same for the immediates that are not negative
C37_ThunkAddressForward ==
    (MemLowered /\ jump.imm < 32768) =>
        TheOne(jump.out).addr = Add64(jump.val, SignExtend64(jump.imm))

(***************************************************************************)
(* C38: for ADDI and ADDIU rt receives                                     *)
(* sign_extend_64((low32(rs) + sign_extend_32(imm)) mod 2^32): the upper   *)
(* 32 bits of rt are all ones whenever bit 31 of the 32-bit sum is set.    *)
(***************************************************************************)
AddLowered == jump # <<>> /\ jump.op \in {"ADDI", "ADDIU"}

\* (low32(rs) + sign_extend_32(imm)) mod 2^32, as the limbs <<hi, lo>>
Sum32(rs, imm) ==
    <<(rs[3] + (IF imm >= 32768 THEN 65535 ELSE 0) + (rs[4] + imm) \div 65536) % 65536,
      (rs[4] + imm) % 65536>>

SignExtend32(s) ==
    <<IF s[1] >= 32768 THEN 65535 ELSE 0, IF s[1] >= 32768 THEN 65535 ELSE 0, s[1], s[2]>>

C38_AddSignExtended ==
    AddLowered => TheOne(jump.out).rt = SignExtend32(Sum32(jump.val, jump.imm))

\* the same for ADDI alone
C38_AddiSignExtended ==
    (jump # <<>> /\ jump.op = "ADDI") =>
        TheOne(jump.out).rt = SignExtend32(Sum32(jump.val, jump.imm))

(***************************************************************************)
(* The instruction decoder (cpu/instruction.rs).  A 32-bit instruction     *)
(* word is the pair <<hi, lo>> of its 16-bit halves.                       *)
(***************************************************************************)
\* enum SpecialFunct: the function codes SpecialFunct::try_from accepts
SpecialFunct ==
    0 :> "SLL" @@ 2 :> "SRL" @@ 3 :> "SRA" @@ 4 :> "SLLV" @@ 6 :> "SRLV" @@
    7 :> "SRAV" @@ 8 :> "JR" @@ 9 :> "JALR" @@ 12 :> "SYSCALL" @@ 13 :> "BREAK" @@
    15 :> "SYNC" @@ 16 :> "MFHI" @@ 17 :> "MTHI" @@ 18 :> "MFLO" @@ 19 :> "MTLO" @@
    20 :> "DSLLV" @@ 22 :> "DSRLV" @@ 23 :> "DSRAV" @@ 24 :> "MULT" @@ 25 :> "MULTU" @@
    26 :> "DIV" @@ 27 :> "DIVU" @@ 28 :> "DMULT" @@ 29 :> "DMULTU" @@ 30 :> "DDIV" @@
    31 :> "DDIVU" @@ 32 :> "ADD" @@ 33 :> "ADDU" @@ 34 :> "SUB" @@ 35 :> "SUBU" @@
    36 :> "AND" @@ 37 :> "OR" @@ 38 :> "XOR" @@ 39 :> "NOR" @@ 42 :> "SLT" @@
    43 :> "SLTU" @@ 44 :> "DADD" @@ 45 :> "DADDU" @@ 46 :> "DSUB" @@ 47 :> "DSUBU" @@
    48 :> "TGE" @@ 49 :> "TGEU" @@ 50 :> "TLT" @@ 51 :> "TLTU" @@ 52 :> "TEQ" @@
    54 :> "TNE" @@ 56 :> "DSLL" @@ 58 :> "DSRL" @@ 59 :> "DSRA" @@ 60 :> "DSLL32" @@
    62 :> "DSRL32" @@ 63 :> "DSRA32"

\* `instruction >> 26` and the low 26 bits of the word
OpcodeOf(w) == w[1] \div 1024
Low26(w) == (w[1] % 1024) * 65536 + w[2]

RegisterType_new(w) ==
    [opcode |-> w[1] \div 1024,
     rs |-> (w[1] \div 32) % 32,
     rt |-> w[1] % 32,
     rd |-> (w[2] \div 2048) % 32,
     shift_amount |-> (w[2] \div 64) % 32,
     funct |-> w[2] % 32]

decode_special(w) ==
    IF RegisterType_new(w).funct \in DOMAIN SpecialFunct
    THEN [ok |-> TRUE, variant |-> SpecialFunct[RegisterType_new(w).funct],
          rtype |-> RegisterType_new(w)]
    ELSE [ok |-> FALSE]

\* Instruction::try_from on the words of opcode SPECIAL, J and JAL
Instruction_try_from(w) ==
    CASE w = <<0, 0>> -> [ok |-> TRUE, variant |-> "NOP"]
      [] OpcodeOf(w) = 0 -> decode_special(w)
      [] OpcodeOf(w) = 2 ->
            [ok |-> TRUE, variant |-> "J",
             jtype |-> [opcode |-> OpcodeOf(w), target |-> JumpType_new(Low26(w))]]
      [] OpcodeOf(w) = 3 ->
            [ok |-> TRUE, variant |-> "JAL",
             jtype |-> [opcode |-> OpcodeOf(w), target |-> JumpType_new(Low26(w))]]

\* the words decoded: SPECIAL words of every function code, J and JAL words
SpecialWords == {<<rs * 32 + rt, rd * 2048 + sa * 64 + f>> :
                    rs \in {0, 31}, rt \in {5}, rd \in {0, 17}, sa \in {0, 31}, f \in 0..63}
JumpWords == {<<op * 1024 + t, lo>> : op \in {2, 3}, t \in {0, 511, 512, 1023},
                                      lo \in {0, 65535}}

InitDecode ==
    /\ regs = <<>> /\ free_regs = {} /\ borrow_index = 0 /\ last = <<>>
    /\ CompIdle
    /\ DispIdle
    /\ EmitterIdle
    /\ CellIdle
    /\ jump \in {[op |-> "none", word |-> w, out |-> None] : w \in SpecialWords \cup JumpWords}

Decode ==
    /\ jump.op = "none"
    /\ jump' = [jump EXCEPT !.op = "decoded", !.out = Some(Instruction_try_from(jump.word))]
    /\ UNCHANGED <<allocVars, compVars, dispVars, emitVars, cellVars>>

NextDecode == Decode

SpecDecode == InitDecode /\ [][NextDecode]_vars

(***************************************************************************)
(* C39: decoding extracts every field at its documented width: the J-type  *)
(* target is the low 26 bits of the word and the R-type funct is its low 6 *)
(* bits, so that a SPECIAL word decodes to the variant selected by its     *)
(* full 6-bit function code (a word with function code AND decodes to      *)
(* SpecialAND).                                                            *)
(***************************************************************************)
Decoded == jump # <<>> /\ jump.op = "decoded"
DecodedSpecial == Decoded /\ OpcodeOf(jump.word) = 0 /\ jump.word # <<0, 0>>
DecodedJump == Decoded /\ OpcodeOf(jump.word) \in {2, 3}

Funct6(w) == w[2] % 64

SpecialByFunct6 ==
    (DecodedSpecial /\ Funct6(jump.word) \in DOMAIN SpecialFunct) =>
        /\ TheOne(jump.out).ok
        /\ TheOne(jump.out).variant = SpecialFunct[Funct6(jump.word)]
        /\ TheOne(jump.out).rtype.funct = Funct6(jump.word)

JumpTarget26 == DecodedJump => TheOne(jump.out).jtype.target = Low26(jump.word)

C39_FieldsAtDocumentedWidth == SpecialByFunct6 /\ JumpTarget26

\* the 5-bit fields of the R-type and the 6-bit opcode are extracted at their width
C39_RegisterFieldsExtracted ==
    (DecodedSpecial /\ TheOne(jump.out).ok) =>
        /\ TheOne(jump.out).rtype.opcode = 0
        /\ TheOne(jump.out).rtype.rs = jump.word[1] \div 32
        /\ TheOne(jump.out).rtype.rt = jump.word[1] % 32
        /\ TheOne(jump.out).rtype.rd = jump.word[2] \div 2048
        /\ TheOne(jump.out).rtype.shift_amount = (jump.word[2] \div 64) % 32

(***************************************************************************)
(* BTreeRange (utils/btree_range.rs): a BTreeMap from the start of a range *)
(* to RangeItem [data, end], end excluded.                                 *)
(***************************************************************************)
\* ranges held at once
MaxRanges == 3

\* insert of the range start..end: BTreeMap::insert replaces the item of an equal key
BTreeRange_insert(B, start, end, value) ==
    [k \in (DOMAIN B) \cup {start} |->
        IF k = start THEN [data |-> value, end |-> end] ELSE B[k]]

\* `range(..=index).last()`: the item of the greatest start that is at most index
BTreeRange_get_offset_value(B, index) ==
    IF {s \in DOMAIN B : s <= index} = {} THEN None
    ELSE LET start == CHOOSE s \in DOMAIN B :
                         s <= index /\ \A t \in DOMAIN B : t <= index => t <= s
         IN IF index < B[start].end
            THEN Some([offset |-> index - start, data |-> B[start].data])
            ELSE None

BTreeRange_get(B, index) == {r.data : r \in BTreeRange_get_offset_value(B, index)}

RangePoints == 0..5
RangeData == {"a", "b"}

InitRange ==
    /\ UnitIdle
    /\ regs = <<>> /\ free_regs = {} /\ borrow_index = 0
    /\ last = [op |-> "new"]
    /\ CompIdle
    /\ mem = <<>> /\ pc = 0 /\ interruption = None /\ resume_addr = 0
    /\ jump_table = <<>> /\ phase = "idle" /\ hist = <<>>
    /\ cache_invalidation = None
    /\ blocks = <<>>
    /\ cache = EmptyMap

RangeInsert(start, end, value) ==
    /\ start < end
    /\ Cardinality((DOMAIN cache) \cup {start}) <= MaxRanges
    /\ cache' = BTreeRange_insert(cache, start, end, value)
    /\ last' = [op |-> "insert"]
    /\ UNCHANGED <<cache_invalidation, blocks, CacheRest>>

RangeGet(index) ==
    /\ last' = [op |-> "get", index |-> index,
                value |-> BTreeRange_get(cache, index),
                offset_value |-> BTreeRange_get_offset_value(cache, index)]
    /\ UNCHANGED <<cache, cache_invalidation, blocks, CacheRest>>

NextRange ==
    \/ \E s \in RangePoints : \E e \in RangePoints : \E v \in RangeData : RangeInsert(s, e, v)
    \/ \E i \in RangePoints : RangeGet(i)

SpecRange == InitRange /\ [][NextRange]_vars

(***************************************************************************)
(* C40: for any set of ranges inserted into a BTreeRange with distinct     *)
(* start points, whether disjoint, overlapping or nested, get(i) returns a *)
(* value whenever some stored range [start, end) contains i, and any value *)
(* it returns belongs to a stored range containing i; get_offset_value     *)
(* returns with it the offset i - start.                                   *)
(***************************************************************************)
GotIndex == last.op = "get"

\* the starts of the stored ranges that contain i
Containing(i) == {s \in DOMAIN cache : s <= i /\ i < cache[s].end}

FoundWhenContained == (GotIndex /\ Containing(last.index) # {}) => last.value # None

ReturnedFromContaining ==
    GotIndex =>
        /\ \A v \in last.value : \E s \in Containing(last.index) : cache[s].data = v
        /\ \A r \in last.offset_value :
              \E s \in Containing(last.index) :
                 cache[s].data = r.data /\ r.offset = last.index - s

C40_GetFindsContainingRange == FoundWhenContained /\ ReturnedFromContaining

\* the stored ranges are pairwise disjoint
Disjoint ==
    \A s \in DOMAIN cache : \A t \in DOMAIN cache : s < t => cache[s].end <= t

\* the same for ranges that are pairwise disjoint
C40_GetOnDisjointRanges ==
    Disjoint => (FoundWhenContained /\ ReturnedFromContaining)

====
